---- MODULE Spec2Model ----
(***************************************************************************)
(* The conveyor of the werf build pipeline: SignaturesPhase, RenewPhase,   *)
(* PrepareImagesPhase and BuildPhase, run by cooperating processes of one  *)
(* host over the same configuration, a shared container store and named    *)
(* file locks.                                                              *)
(***************************************************************************)
EXTENDS Integers, Sequences, FiniteSets, TLC

\* Number of operations (lock, docker, git, stage hooks) that may fail in a run.
MaxFailures == 1

\* The cooperating processes of the host.
Procs == {"p1", "p2"}

NoProc == "none"

NoCommit == "-"

NoError == "nil"

BuildCacheVersion == "33"

ProjectName == "demo"

\* A stage of the configuration. gitPaths is the list of the stage's git
\* paths (empty for a stage that is no git stage).
Stage(name, isGit, deps, gitPaths) ==
  [name |-> name, isGit |-> isGit, deps |-> deps, gitPaths |-> gitPaths,
   signature |-> <<>>, image |-> <<>>]

\* c.imagesInOrder: two images sharing their first stage, a git stage. A
\* goes on with a stage that is no git stage and ends with a git stage
\* without git paths (empty); B has an empty git stage between two git
\* stages with one git path each.
ImagesInOrder ==
  << [name |-> "A",
      stages |-> << Stage("gitArchive", TRUE, "g1", <<"repo">>),
                    Stage("install", FALSE, "d1", <<>>),
                    Stage("gitCache", TRUE, "g0", <<>>) >>],
     [name |-> "B",
      stages |-> << Stage("gitArchive", TRUE, "g1", <<"repo">>),
                    Stage("gitCache", TRUE, "g0", <<>>),
                    Stage("gitLatestPatch", TRUE, "d3", <<"repo">>) >>] >>

ImageIdx == 1..Len(ImagesInOrder)

\* util.Sha256Hash(args...): an ideal (collision-free) hash is the list of
\* its arguments.
Sha256Hash(args) == args

\* Faulty variant of StageSig: the previous stage's signature is left out.
StageSigUnchained(deps, prevSig) == Sha256Hash(<<deps, BuildCacheVersion>>)

\* stageSig of SignaturesPhase: the hash of the dependencies, the cache
\* version and, when there is a previous stage, its signature.
StageSig(deps, prevSig) ==
  Sha256Hash(IF prevSig = <<>> THEN <<deps, BuildCacheVersion>>
                               ELSE <<deps, BuildCacheVersion, prevSig>>)

\* A nil image, and the reference of an image's base image; the base image
\* is in the store.
NoImage == <<"nil">>

BaseImage == <<"base">>

\* Faulty variant of IsEmpty: a git stage is also empty when a stage image was
\* built before it.
IsEmptyAfterBuiltImage(s, prevBuiltImage) ==
  s.isGit /\ (Len(s.gitPaths) = 0 \/ prevBuiltImage \notin {NoImage, BaseImage})

\* GitStage.IsEmpty: a git stage is empty iff it has no git paths, whatever
\* prevBuiltImage is; a stage that is no git stage is not empty.
IsEmpty(s, prevBuiltImage) == s.isGit /\ Len(s.gitPaths) = 0

\* imageName := fmt.Sprintf(LocalImageStageImageFormat, project, stageSig)
StageImageName(sig) == <<"image-stage", ProjectName, sig>>

\* imageLockName := fmt.Sprintf("%s.image.%s", c.projectName(), img.Name())
ImageLockName(sig) == <<ProjectName, "image", StageImageName(sig)>>

RECURSIVE SignedStages(_, _)
\* The non-empty stages of a stage list with their signatures, as
\* SignaturesPhase leaves them in image.stages.
SignedStages(ss, prevSig) ==
  IF ss = <<>> THEN <<>>
  ELSE IF IsEmpty(Head(ss), NoImage) THEN SignedStages(Tail(ss), prevSig)
  ELSE LET sig == StageSig(Head(ss).deps, prevSig)
       IN  <<[Head(ss) EXCEPT !.signature = sig]>> \o SignedStages(Tail(ss), sig)

\* Every signature the configuration can give rise to: the keys of the
\* container store and of the lock table.
AllSigs ==
  UNION { { SignedStages(ImagesInOrder[i].stages, <<>>)[k].signature :
              k \in 1..Len(SignedStages(ImagesInOrder[i].stages, <<>>)) } :
          i \in ImageIdx }

GitSigs ==
  UNION { { SignedStages(ImagesInOrder[i].stages, <<>>)[k].signature :
              k \in { j \in 1..Len(SignedStages(ImagesInOrder[i].stages, <<>>)) :
                        SignedStages(ImagesInOrder[i].stages, <<>>)[j].isGit } } :
          i \in ImageIdx }

\* The repository's head commit, stamped on the git stage images built now.
HeadCommit == "c2"

\* The labels PrepareImagesPhase adds to every stage image it prepares.
DefaultLabels ==
  {"werf", "werf-version", "werf-cache-version", "werf-image=false",
   "werf-dev-mode=false"}

LockNames == { ImageLockName(sig) : sig \in AllSigs }

VARIABLES
  docker,             \* the container store: name (signature) -> image
  locks,              \* the lock files: lock name -> holder and depth
  commits,            \* the commits the git repository holds
  failures,           \* operations that failed so far
  pc,                 \* per process: the phase the driver is running
  loc,                \* per process: the locals of the running phase
  images,             \* per process: c.imagesInOrder with image.stages
  stageImages,        \* per process: the StageImage objects by name
  imagesBySignature,  \* per process: the signature index of Prepare
  buildingGitStage,   \* per process: image name -> stage name
  result,             \* per process: the error the run ended with
  restarts,           \* per process: how often the driver restarted the run
  hist,               \* per process: what the run did (history)
  fs                  \* the git cache on disk: the remote clone, the work tree

vars ==
  <<docker, locks, commits, failures, pc, loc, images, stageImages,
    imagesBySignature, buildingGitStage, result, restarts, hist, fs>>

\* The container store's record of an image that is not there.
AbsentImage == [exists |-> FALSE, commit |-> NoCommit, labels |-> {}]

\* A lock nobody holds.
FreeLock == [holder |-> NoProc, count |-> 0]

\* The process ends: the operating system drops the file locks it holds.
ProcessExit(lk, p) ==
  [n \in LockNames |-> IF lk[n].holder = p THEN FreeLock ELSE lk[n]]

\* image.NewStageImage: a fresh StageImage object, not yet synchronized.
NewStageImage(name) ==
  [name |-> name, exists |-> FALSE, commit |-> NoCommit, labels |-> {},
   prepared |-> FALSE, synced |-> FALSE]

\* The locals of a phase's run function at its entry.
EnterPhase(step) ==
  [step |-> step, i |-> 1, k |-> 1, newStagesList |-> <<>>,
   prevSig |-> <<>>, prevImage |-> BaseImage, prevBuiltImage |-> NoImage,
   acquiredLocks |-> <<>>,
   conveyorShouldBeReset |-> FALSE, err |-> NoError]

NoHistory ==
  [builds |-> <<>>, unlocks |-> <<>>, observed |-> {},
   locked |-> <<>>, unlocked |-> <<>>,
   phaseFailed |-> FALSE, stageFailed |-> FALSE, lockFailed |-> FALSE,
   missingAtBuild |-> {}, seenInRenew |-> {},
   staleAtStart |-> {}, untagged |-> {},
   heldAtEntry |-> <<>>,
   resetSigs |-> {}, returned |-> <<>>,
   existingAtSign |-> {}, absentAtSign |-> {},
   missingGit |-> [i \in ImageIdx |-> <<>>],
   gitSetters |-> [i \in ImageIdx |-> <<>>], staleAtRunStart |-> {},
   prevAttempt |-> <<>>, startedAfter |-> {},
   deferred |-> <<>>, heldAtReturn |-> <<>>, prepareCalls |-> <<>>]

\* The git cache before a clone was made: no clone directory (so none that
\* is still being written), nobody inside the clone or the work tree.
NoFiles ==
  [cloneExists |-> FALSE, partial |-> FALSE, originUrl |-> "", writers |-> {},
   users |-> {}]

\* Whether an operation may fail now: the outcomes it can have.
Outcomes == IF failures < MaxFailures THEN {TRUE, FALSE} ELSE {TRUE}

\* The failure count after an operation with outcome ok.
Failed(ok) == IF ok THEN failures ELSE failures + 1

\* The state when the processes `running` start their runs; the other
\* processes have ended theirs.
InitRun(running) ==
  /\ docker \in { d \in [AllSigs -> { AbsentImage,
                                      [exists |-> TRUE, commit |-> NoCommit,
                                       labels |-> DefaultLabels],
                                      [exists |-> TRUE, commit |-> "c1",
                                       labels |-> DefaultLabels] }] :
                    \A sig \in AllSigs :
                      d[sig].exists => (d[sig].commit = "c1" <=> sig \in GitSigs) }
  /\ locks = [n \in LockNames |-> FreeLock]
  /\ commits \in { {"c2"}, {"c1", "c2"} }
  /\ failures = 0
  /\ pc = [p \in Procs |-> IF p \in running THEN "signatures" ELSE "exited"]
  /\ loc = [p \in Procs |-> EnterPhase("stage")]
  /\ images = [p \in Procs |-> ImagesInOrder]
  /\ stageImages = [p \in Procs |-> <<>>]
  /\ imagesBySignature = [p \in Procs |-> {}]
  /\ buildingGitStage = [p \in Procs |-> [i \in ImageIdx |-> ""]]
  /\ result = [p \in Procs |-> NoError]
  /\ restarts = [p \in Procs |-> 0]
  /\ hist = [p \in Procs |-> NoHistory]
  /\ fs = NoFiles

Init == InitRun(Procs)

\* ConveyorShouldBeResetError().Error()
ConveyorShouldBeReset == "conveyor should be reset"

\* The stage the running loop of p is at, and its image.
CurImage(p) == images[p][loc[p].i]

CurStage(p) == CurImage(p).stages[loc[p].k]

\* StageImage.SyncDockerState: existence and inspect refreshed from the store.
SyncDockerState(img, sig) ==
  [img EXCEPT !.exists = docker[sig].exists, !.commit = docker[sig].commit,
              !.synced = TRUE]

\* Conveyor.GetOrCreateImage: the reference of the StageImage object of that
\* name. The conveyor keeps its objects by name, so the object's reference
\* is its name; the object itself is made on first use.
GetOrCreateImage(p, name) == name

\* Faulty variant of AttachedImage: every stage gets a StageImage object of its
\* own.
AttachNewImage(p, imageName) ==
  <<imageName, Cardinality(DOMAIN stageImages[p]) + 1>>

\* calculateImageSignatures: the image the stage gets attached is the one
\* the conveyor keeps under the stage image's name.
AttachedImage(p, imageName) == GetOrCreateImage(p, imageName)

\* The object a reference of GetOrCreateImage points to.
StageImageOf(p, ref, name) ==
  IF ref \in DOMAIN stageImages[p] THEN stageImages[p][ref] ELSE NewStageImage(name)

\* Faulty variant of AfterImageSyncDockerStateHook: the slot is claimed even
\* when another stage holds it.
AfterHookOverwriting(p, i, s, img) ==
  IF s.isGit /\ ~img.exists
  THEN [buildingGitStage EXCEPT ![p][i] = s.name]
  ELSE buildingGitStage

\* GitStage.AfterImageSyncDockerStateHook: a git stage whose image does not
\* exist claims the image's building-git-stage slot if it is still empty.
AfterImageSyncDockerStateHook(p, i, s, img) ==
  IF s.isGit /\ ~img.exists /\ buildingGitStage[p][i] = ""
  THEN [buildingGitStage EXCEPT ![p][i] = s.name]
  ELSE buildingGitStage

\* A phase's run function returns err to the driver.
Return(p, err) == [loc[p] EXCEPT !.step = "ret", !.err = err]

\* Faulty variant of SetStages: the new stage list is stored back to front.
SetStagesReversed(image, newStagesList) ==
  [image EXCEPT !.stages =
     [k \in 1..Len(newStagesList) |-> newStagesList[Len(newStagesList) + 1 - k]]]

\* image.SetStages(newStagesList)
SetStages(image, newStagesList) == [image EXCEPT !.stages = newStagesList]

\* The end of one iteration of calculateImageSignatures' stage loop: after
\* the last stage image.SetStages(newStagesList), then Run's next image.
SignaturesNext(p, newStagesList, prevSig, prevImage, prevBuiltImage) ==
  LET l == loc[p] IN
  IF l.k < Len(CurImage(p).stages)
  THEN /\ loc' = [loc EXCEPT ![p] = [l EXCEPT !.k = l.k + 1,
                                               !.newStagesList = newStagesList,
                                               !.prevSig = prevSig,
                                               !.prevImage = prevImage,
                                               !.prevBuiltImage = prevBuiltImage]]
       /\ images' = images
  ELSE /\ images' = [images EXCEPT ![p][l.i] = SetStages(@, newStagesList)]
       /\ loc' = [loc EXCEPT ![p] =
                    IF l.i < Len(images[p])
                    THEN [l EXCEPT !.i = l.i + 1, !.k = 1,
                                   !.newStagesList = <<>>, !.prevSig = <<>>,
                                   !.prevImage = BaseImage,
                                   !.prevBuiltImage = NoImage]
                    ELSE Return(p, NoError)]

\* prevImage.IsExists() in calculateImageSignatures.
PrevImageExists(p, prevImage) ==
  prevImage = BaseImage \/ stageImages[p][prevImage].exists

\* SignaturesPhase.Run / calculateImageSignatures: one stage of one image.
SignaturesPhase(p) ==
  /\ pc[p] = "signatures"
  /\ loc[p].step = "stage"
  /\ LET l == loc[p]
         s == CurStage(p)
         prevBuiltImage == IF PrevImageExists(p, l.prevImage)
                           THEN l.prevImage ELSE l.prevBuiltImage
         stageSig == StageSig(s.deps, l.prevSig)
         imageName == StageImageName(stageSig)
         ref == AttachedImage(p, imageName)
         i == SyncDockerState(StageImageOf(p, ref, imageName), stageSig)
     IN  IF IsEmpty(s, prevBuiltImage)
         THEN /\ SignaturesNext(p, l.newStagesList, l.prevSig, l.prevImage,
                                prevBuiltImage)
              /\ UNCHANGED <<stageImages, buildingGitStage, failures, hist>>
         ELSE \E ok \in Outcomes :
                /\ failures' = Failed(ok)
                /\ IF ok
                   THEN /\ stageImages' =
                             [stageImages EXCEPT ![p] = (ref :> i) @@ stageImages[p]]
                        /\ buildingGitStage' =
                             AfterImageSyncDockerStateHook(p, l.i, s, i)
                        /\ SignaturesNext(p,
                             Append(l.newStagesList,
                                    [s EXCEPT !.signature = stageSig, !.image = ref]),
                             stageSig, ref, prevBuiltImage)
                        /\ hist' = [hist EXCEPT
                             ![p].startedAfter =
                                IF restarts[p] = 0 /\ l.i = 1 /\ l.k = 1
                                THEN { q \in Procs \ {p} :
                                         pc[q] = "exited" /\ result[q] = NoError }
                                ELSE @,
                             ![p].existingAtSign = IF i.exists THEN @ \cup {stageSig} ELSE @,
                             ![p].absentAtSign = IF i.exists THEN @ ELSE @ \cup {stageSig},
                             ![p].missingGit[l.i] =
                                IF s.isGit /\ ~docker[stageSig].exists
                                THEN Append(@, s.name) ELSE @,
                             ![p].gitSetters[l.i] =
                                IF AfterImageSyncDockerStateHook(p, l.i, s, i)
                                     # buildingGitStage
                                THEN Append(@, s.name) ELSE @]
                   ELSE /\ stageImages' =
                             [stageImages EXCEPT ![p] =
                                (ref :> StageImageOf(p, ref, imageName)) @@ stageImages[p]]
                        /\ loc' = [loc EXCEPT ![p] = Return(p, "sync")]
                        /\ UNCHANGED <<buildingGitStage, images, hist>>
  /\ UNCHANGED <<docker, locks, commits, pc, imagesBySignature, result, restarts, fs>>

\* lock.Lock succeeds at once when the lock is free or held by the caller
\* (re-entrant); held by another process it blocks until the timeout.
CanLock(p, name) == locks[name].holder \in {NoProc, p}

\* The lock table after p's lock.Lock(name) succeeded.
Lock(lk, p, name) ==
  [lk EXCEPT ![name] = [holder |-> p, count |-> lk[name].count + 1]]

\* lock.Unlock(name) by p: balanced with Lock; a lock p does not hold is
\* left alone.
Unlock(lk, p, name) ==
  IF lk[name].holder # p THEN lk
  ELSE IF lk[name].count > 1
       THEN [lk EXCEPT ![name].count = lk[name].count - 1]
       ELSE [lk EXCEPT ![name] = FreeLock]

RECURSIVE UnlockLocks(_, _, _)
\* unlockLocks: pops and unlocks every name of acquiredLocks, first to last.
UnlockLocks(lk, p, acquiredLocks) ==
  IF acquiredLocks = <<>> THEN lk
  ELSE UnlockLocks(Unlock(lk, p, Head(acquiredLocks)), p, Tail(acquiredLocks))

\* History: the counts, kept for the counted names only, after one more lock
\* or unlock of the name n.
Counted(cnt, n) ==
  [m \in DOMAIN cnt \cup {n} |->
     (IF m \in DOMAIN cnt THEN cnt[m] ELSE 0) + (IF m = n THEN 1 ELSE 0)]

RECURSIVE CountUnlocks(_, _)
\* History: the unlock counts after unlockLocks ran over acquiredLocks.
CountUnlocks(cnt, acquiredLocks) ==
  IF acquiredLocks = <<>> THEN cnt
  ELSE CountUnlocks(Counted(cnt, Head(acquiredLocks)), Tail(acquiredLocks))

\* GitPath.GetGitCommitFromImageLabels: the commit label read back from the
\* built image's inspect data.
GetGitCommitFromImageLabels(builtImage) == builtImage.commit

\* Faulty variant of ShouldBeReset: the test of IsCommitExists is inverted.
ShouldBeResetInverted(s, builtImage) ==
  /\ s.isGit
  /\ \E g \in 1..Len(s.gitPaths) :
       GetGitCommitFromImageLabels(builtImage) \in commits

\* GitStage.ShouldBeReset on a stage whose repository answers: some git
\* path's labelled commit is not in the repository.
ShouldBeReset(s, builtImage) ==
  /\ s.isGit
  /\ \E g \in 1..Len(s.gitPaths) :
       GetGitCommitFromImageLabels(builtImage) \notin commits

\* RenewPhase.run's acquiredLocks after a successful lock.Lock: the name is
\* not appended.
RenewAcquire(acquiredLocks, imageLockName) == acquiredLocks

\* The end of one iteration of RenewPhase.run's lock loop.
RenewLockNext(p) ==
  IF loc[p].k < Len(CurImage(p).stages)
  THEN [loc[p] EXCEPT !.step = "lock", !.k = loc[p].k + 1]
  ELSE [loc[p] EXCEPT !.step = "check", !.k = 1]

\* RenewPhase.run, lock loop: lock.Lock on the image of an existing stage.
RenewLock(p) ==
  /\ pc[p] = "renew"
  /\ loc[p].step = "lock"
  /\ LET img == stageImages[p][CurStage(p).image]
         imageLockName == ImageLockName(CurStage(p).signature)
     IN  IF ~img.exists
         THEN /\ loc' = [loc EXCEPT ![p] = RenewLockNext(p)]
              /\ UNCHANGED <<locks, hist>>
         ELSE \/ /\ CanLock(p, imageLockName)
                 /\ locks' = Lock(locks, p, imageLockName)
                 /\ loc' = [loc EXCEPT ![p] =
                              [loc[p] EXCEPT !.step = "sync",
                                 !.acquiredLocks =
                                    RenewAcquire(loc[p].acquiredLocks, imageLockName)]]
                 /\ UNCHANGED hist
              \/ /\ ~CanLock(p, imageLockName)
                 /\ locks' = UnlockLocks(locks, p, loc[p].acquiredLocks)
                 /\ loc' = [loc EXCEPT ![p] =
                              [Return(p, "failed to lock") EXCEPT !.acquiredLocks = <<>>]]
                 /\ hist' = [hist EXCEPT ![p].phaseFailed = TRUE]
  /\ UNCHANGED <<docker, commits, failures, pc, images, stageImages,
                 imagesBySignature, buildingGitStage, result, restarts, fs>>

\* RenewPhase.run, lock loop: img.SyncDockerState under the lock.
RenewSync(p) ==
  /\ pc[p] = "renew"
  /\ loc[p].step = "sync"
  /\ LET sig == CurStage(p).signature IN
     \E ok \in Outcomes :
       /\ failures' = Failed(ok)
       /\ IF ok
          THEN /\ stageImages' =
                    [stageImages EXCEPT ![p][CurStage(p).image] = SyncDockerState(@, sig)]
               /\ loc' = [loc EXCEPT ![p] = RenewLockNext(p)]
               /\ hist' = [hist EXCEPT ![p].seenInRenew =
                             IF docker[sig].exists /\ docker[sig].commit \notin commits
                             THEN @ \cup {sig} ELSE @]
               /\ UNCHANGED locks
          ELSE /\ locks' = UnlockLocks(locks, p, loc[p].acquiredLocks)
               /\ loc' = [loc EXCEPT ![p] =
                            [Return(p, "sync") EXCEPT !.acquiredLocks = <<>>]]
               /\ hist' = [hist EXCEPT ![p].phaseFailed = TRUE]
               /\ UNCHANGED stageImages
  /\ UNCHANGED <<docker, commits, pc, images, imagesBySignature,
                 buildingGitStage, result, restarts, fs>>

\* Faulty variant of RenewUntag: the stage is flagged but its image is not untagged.
RenewNoUntag(store, sig) == store

\* RenewPhase.run on a stage that should be reset: img.Untag() removes the
\* stage image from the container store.
RenewUntag(store, sig) == [store EXCEPT ![sig] = AbsentImage]

\* The end of one iteration of RenewPhase.run's second loop: after the last
\* stage unlockLocks(), then the next image or the phase's result.
RenewCheckNext(p, reset) ==
  LET l == loc[p] IN
  IF l.k < Len(CurImage(p).stages)
  THEN /\ loc' = [loc EXCEPT ![p] =
                    [l EXCEPT !.k = l.k + 1, !.conveyorShouldBeReset = reset]]
       /\ locks' = locks
  ELSE /\ locks' = UnlockLocks(locks, p, l.acquiredLocks)
       /\ loc' = [loc EXCEPT ![p] =
                    IF l.i < Len(images[p])
                    THEN [l EXCEPT !.step = "lock", !.i = l.i + 1, !.k = 1,
                                   !.acquiredLocks = <<>>,
                                   !.conveyorShouldBeReset = reset]
                    ELSE [Return(p, IF reset THEN ConveyorShouldBeReset ELSE NoError)
                            EXCEPT !.acquiredLocks = <<>>,
                                   !.conveyorShouldBeReset = reset]]

\* RenewPhase.run, second loop: ShouldBeReset on an existing stage image,
\* and Untag when it says so.
RenewCheck(p) ==
  /\ pc[p] = "renew"
  /\ loc[p].step = "check"
  /\ LET s == CurStage(p)
         sig == s.signature
         img == stageImages[p][s.image]
         fail(err) ==
           /\ locks' = UnlockLocks(locks, p, loc[p].acquiredLocks)
           /\ loc' = [loc EXCEPT ![p] =
                        [Return(p, err) EXCEPT !.acquiredLocks = <<>>]]
           /\ hist' = [hist EXCEPT ![p].phaseFailed = TRUE]
           /\ UNCHANGED <<docker, stageImages>>
     IN  IF ~img.exists
         THEN /\ RenewCheckNext(p, loc[p].conveyorShouldBeReset)
              /\ UNCHANGED <<docker, stageImages, failures, hist>>
         ELSE \E ok \in (IF s.isGit /\ Len(s.gitPaths) > 0 THEN Outcomes ELSE {TRUE}) :
                IF ~ok
                THEN /\ failures' = Failed(FALSE)
                     /\ fail("shouldBeReset")
                ELSE IF ~ShouldBeReset(s, img)
                THEN /\ RenewCheckNext(p, loc[p].conveyorShouldBeReset)
                     /\ UNCHANGED <<docker, stageImages, failures, hist>>
                ELSE \E untagged \in Outcomes :
                       /\ failures' = Failed(untagged)
                       /\ IF untagged
                          THEN /\ docker' = RenewUntag(docker, sig)
                               /\ stageImages' =
                                    [stageImages EXCEPT ![p][s.image].exists = FALSE,
                                                        ![p][s.image].commit = NoCommit]
                               /\ hist' = [hist EXCEPT ![p].untagged = @ \cup {sig}]
                               /\ RenewCheckNext(p, TRUE)
                          ELSE fail("untag")
  /\ UNCHANGED <<commits, pc, images, imagesBySignature, buildingGitStage, result, restarts, fs>>

\* PrepareImagesPhase.run after runImage returned nil: `return nil` stands
\* inside the loop over c.imagesInOrder, so the first image ends the phase.
PrepareRunNext(p) == Return(p, NoError)

\* The end of one iteration of PrepareImagesPhase.runImage's stage loop.
PrepareNext(p) ==
  IF loc[p].k < Len(CurImage(p).stages)
  THEN [loc[p] EXCEPT !.k = loc[p].k + 1]
  ELSE PrepareRunNext(p)

\* Faulty variant of PrepareImagesPhase: runImage does not ask the signature
\* index before it prepares a stage, and run goes on with the next image.
PrepareImagesPhaseUnindexed(p) ==
  /\ pc[p] = "prepare"
  /\ loc[p].step = "stage"
  /\ LET s == CurStage(p)
         stageImage == stageImages[p][s.image]
         next == IF loc[p].k < Len(CurImage(p).stages)
                 THEN [loc[p] EXCEPT !.k = loc[p].k + 1]
                 ELSE IF loc[p].i < Len(images[p])
                 THEN [loc[p] EXCEPT !.i = loc[p].i + 1, !.k = 1]
                 ELSE Return(p, NoError)
     IN  /\ loc' = [loc EXCEPT ![p] = next]
         /\ stageImages' =
              IF stageImage.exists THEN stageImages
              ELSE [stageImages EXCEPT ![p][s.image] =
                      [stageImage EXCEPT !.labels = @ \cup DefaultLabels,
                                         !.prepared = TRUE]]
         /\ imagesBySignature' =
              IF stageImage.exists THEN imagesBySignature
              ELSE [imagesBySignature EXCEPT ![p] = @ \cup {s.signature}]
         /\ hist' =
              IF stageImage.exists THEN hist
              ELSE [hist EXCEPT ![p].prepareCalls = Counted(@, s.signature)]
  /\ UNCHANGED <<docker, locks, commits, failures, pc, images, buildingGitStage,
                 result, restarts, fs>>

\* PrepareImagesPhase.runImage: PrepareBaseImage before the first stage, then
\* one stage: default labels, PrepareImage, SetImageBySignature.
PrepareImagesPhase(p) ==
  /\ pc[p] = "prepare"
  /\ loc[p].step = "stage"
  /\ LET s == CurStage(p)
         sig == s.signature
         stageImage == stageImages[p][s.image]
     IN  \E baseOk \in (IF loc[p].k = 1 THEN Outcomes ELSE {TRUE}) :
           IF ~baseOk
           THEN /\ failures' = Failed(FALSE)
                /\ loc' = [loc EXCEPT ![p] = Return(p, "prepareBaseImage")]
                /\ UNCHANGED <<stageImages, imagesBySignature, hist>>
           ELSE IF sig \in imagesBySignature[p] \/ stageImage.exists
           THEN /\ loc' = [loc EXCEPT ![p] = PrepareNext(p)]
                /\ UNCHANGED <<stageImages, imagesBySignature, failures, hist>>
           ELSE \E ok \in Outcomes :
                  /\ failures' = Failed(ok)
                  /\ hist' = [hist EXCEPT ![p].prepareCalls = Counted(@, sig)]
                  /\ stageImages' =
                       [stageImages EXCEPT ![p][s.image] =
                          [stageImage EXCEPT !.labels = @ \cup DefaultLabels,
                                             !.prepared = ok]]
                  /\ IF ok
                     THEN /\ imagesBySignature' =
                               [imagesBySignature EXCEPT ![p] = @ \cup {sig}]
                          /\ loc' = [loc EXCEPT ![p] = PrepareNext(p)]
                     ELSE /\ loc' = [loc EXCEPT ![p] = Return(p, "prepareImage")]
                          /\ UNCHANGED imagesBySignature
  /\ UNCHANGED <<docker, locks, commits, pc, images, buildingGitStage, result, restarts, fs>>

\* p's share of the lock table: how deep p holds each lock.
HeldBy(lk, p) ==
  [n \in {m \in LockNames : lk[m].holder = p} |-> lk[n].count]

\* Faulty variant of BuildReturn: runImage returns without the deferred unlockLocks.
BuildReturnNoDefer(p, err) ==
  /\ locks' = locks
  /\ loc' = [loc EXCEPT ![p] =
               [loc[p] EXCEPT !.step = "runImageRet", !.err = err,
                              !.acquiredLocks = <<>>]]

\* BuildPhase.runImage returns err: the deferred unlockLocks runs first.
BuildReturn(p, err) ==
  /\ locks' = UnlockLocks(locks, p, loc[p].acquiredLocks)
  /\ loc' = [loc EXCEPT ![p] =
               [loc[p] EXCEPT !.step = "runImageRet", !.err = err,
                              !.acquiredLocks = <<>>]]

\* The end of one iteration of BuildPhase.runImage's lock loop.
BuildLockNext(p) ==
  IF loc[p].k < Len(CurImage(p).stages)
  THEN [loc[p] EXCEPT !.step = "lock", !.k = loc[p].k + 1]
  ELSE [loc[p] EXCEPT !.step = "build", !.k = 1]

\* BuildPhase.runImage, lock loop: lock.Lock on the image of a stage that
\* does not exist; the name is appended to acquiredLocks.
BuildLock(p) ==
  /\ pc[p] = "build"
  /\ loc[p].step = "lock"
  /\ LET img == stageImages[p][CurStage(p).image]
         imageLockName == ImageLockName(CurStage(p).signature)
     IN  IF img.exists
         THEN /\ loc' = [loc EXCEPT ![p] = BuildLockNext(p)]
              /\ UNCHANGED <<locks, hist>>
         ELSE \/ /\ CanLock(p, imageLockName)
                 /\ locks' = Lock(locks, p, imageLockName)
                 /\ loc' = [loc EXCEPT ![p] =
                              [loc[p] EXCEPT !.step = "sync",
                                 !.acquiredLocks = Append(@, imageLockName)]]
                 /\ hist' = [hist EXCEPT ![p].locked = Counted(@, imageLockName)]
              \/ /\ ~CanLock(p, imageLockName)
                 /\ BuildReturn(p, "failed to lock")
                 /\ hist' = [hist EXCEPT
                      ![p].phaseFailed = TRUE,
                      ![p].lockFailed = TRUE,
                      ![p].unlocked = CountUnlocks(@, loc[p].acquiredLocks)]
  /\ UNCHANGED <<docker, commits, failures, pc, images, stageImages,
                 imagesBySignature, buildingGitStage, result, restarts, fs>>

\* Faulty variant of LockPassSync: the lock loop does not refresh the image state
\* after taking the lock.
LockPassNoSync(img, sig) == img

\* The lock loop's refresh of a stage image it has just locked.
LockPassSync(img, sig) == SyncDockerState(img, sig)

\* BuildPhase.runImage, lock loop: img.SyncDockerState under the lock.
BuildSync(p) ==
  /\ pc[p] = "build"
  /\ loc[p].step = "sync"
  /\ LET sig == CurStage(p).signature IN
     \E ok \in Outcomes :
       /\ failures' = Failed(ok)
       /\ IF ok
          THEN /\ stageImages' =
                    [stageImages EXCEPT ![p][CurStage(p).image] = LockPassSync(@, sig)]
               /\ loc' = [loc EXCEPT ![p] = BuildLockNext(p)]
               /\ locks' = locks
               /\ hist' = [hist EXCEPT ![p].observed =
                             IF LockPassSync(stageImages[p][CurStage(p).image], sig).exists
                             THEN @ \cup {sig} ELSE @]
          ELSE /\ BuildReturn(p, "sync")
               /\ hist' = [hist EXCEPT
                    ![p].phaseFailed = TRUE,
                    ![p].unlocked = CountUnlocks(@, loc[p].acquiredLocks)]
               /\ UNCHANGED stageImages
  /\ UNCHANGED <<docker, commits, pc, images, imagesBySignature,
                 buildingGitStage, result, restarts, fs>>

\* The end of one iteration of BuildPhase.runImage's build loop, with
\* acquiredLocks as the iteration left it: the next stage, or `return`.
BuildStageNext(p, lk, acquiredLocks, err) ==
  IF loc[p].k < Len(CurImage(p).stages)
  THEN /\ locks' = lk
       /\ loc' = [loc EXCEPT ![p] =
                    [loc[p] EXCEPT !.step = "build", !.k = loc[p].k + 1,
                                   !.acquiredLocks = acquiredLocks, !.err = err]]
  ELSE /\ locks' = UnlockLocks(lk, p, acquiredLocks)
       /\ loc' = [loc EXCEPT ![p] =
                    [loc[p] EXCEPT !.step = "runImageRet", !.err = err,
                                   !.acquiredLocks = <<>>]]

\* The operations of building one stage, in order; each may fail.
BuildOutcomes ==
  IF failures < MaxFailures
  THEN {"ok", "preRunHook", "build", "saveInCache"}
  ELSE {"ok"}

\* BuildPhase.runImage, build loop: an existing image is used as cache;
\* otherwise PreRunHook, Build and SaveInCache. Their error is assigned to
\* err inside the LogProcess closure, whose result is not looked at.
BuildStage(p) ==
  /\ pc[p] = "build"
  /\ loc[p].step = "build"
  /\ LET s == CurStage(p)
         sig == s.signature
         img == stageImages[p][s.image]
         built == [exists |-> TRUE,
                   commit |-> IF s.isGit THEN HeadCommit ELSE NoCommit,
                   labels |-> img.labels]
     IN  IF img.exists
         THEN /\ BuildStageNext(p, locks, loc[p].acquiredLocks, loc[p].err)
              /\ hist' = [hist EXCEPT ![p].unlocked =
                            IF loc[p].k < Len(CurImage(p).stages) THEN @
                            ELSE CountUnlocks(@, loc[p].acquiredLocks)]
              /\ UNCHANGED <<docker, stageImages, failures>>
         ELSE \E outcome \in BuildOutcomes :
                /\ failures' = Failed(outcome = "ok")
                /\ loc' = [loc EXCEPT ![p] =
                             [loc[p] EXCEPT !.step = "unlock",
                                !.err = IF outcome = "ok" THEN NoError ELSE outcome]]
                /\ docker' = IF outcome = "ok"
                             THEN [docker EXCEPT ![sig] = built]
                             ELSE docker
                /\ stageImages' =
                     IF outcome = "ok"
                     THEN [stageImages EXCEPT ![p][s.image].exists = TRUE,
                                              ![p][s.image].commit = built.commit]
                     ELSE stageImages
                /\ hist' = [hist EXCEPT
                     ![p].builds = Append(@,
                        [image |-> loc[p].i, stage |-> s.name, sig |-> sig,
                         labels |-> img.labels, prepared |-> img.prepared,
                         outcome |-> outcome,
                         afterFailure |-> hist[p].stageFailed,
                         lockHeld |-> locks[ImageLockName(sig)].holder = p]),
                     ![p].stageFailed = @ \/ outcome # "ok",
                     ![p].phaseFailed = @ \/ outcome # "ok"]
                /\ locks' = locks
  /\ UNCHANGED <<commits, pc, images, imagesBySignature, buildingGitStage, result, restarts, fs>>

\* BuildPhase.runImage, build loop: unlockLock() after the stage's
\* LogProcess pops the first name of acquiredLocks and unlocks it.
BuildUnlock(p) ==
  /\ pc[p] = "build"
  /\ loc[p].step = "unlock"
  /\ IF loc[p].acquiredLocks = <<>>
     THEN /\ pc' = [pc EXCEPT ![p] = "panic"]
          /\ locks' = ProcessExit(locks, p)
          /\ UNCHANGED <<loc, hist>>
     ELSE LET lockName == Head(loc[p].acquiredLocks)
              acquiredLocks == Tail(loc[p].acquiredLocks)
          IN  /\ BuildStageNext(p, Unlock(locks, p, lockName), acquiredLocks,
                                loc[p].err)
              /\ hist' = [hist EXCEPT
                   ![p].unlocks = Append(@,
                      [lockName |-> lockName,
                       built |-> ImageLockName(CurStage(p).signature)]),
                   ![p].unlocked =
                      IF loc[p].k < Len(CurImage(p).stages)
                      THEN Counted(@, lockName)
                      ELSE CountUnlocks(Counted(@, lockName),
                                        acquiredLocks)]
              /\ pc' = pc
  /\ UNCHANGED <<docker, commits, failures, images, stageImages,
                 imagesBySignature, buildingGitStage, result, restarts, fs>>

\* BuildPhase.run's result once every image was run: `return nil`, whatever
\* runImage returned.
BuildRunResult(err) == NoError

\* BuildPhase.run: runImage returned inside the LogServiceProcess closure,
\* whose result is dropped; the loop goes on with the next image.
BuildRun(p) ==
  /\ pc[p] = "build"
  /\ loc[p].step = "runImageRet"
  /\ loc' = [loc EXCEPT ![p] =
               IF loc[p].i < Len(images[p])
               THEN [loc[p] EXCEPT !.step = "lock", !.i = loc[p].i + 1, !.k = 1]
               ELSE Return(p, BuildRunResult(loc[p].err))]
  /\ hist' = [hist EXCEPT ![p].locked = <<>>,
                          ![p].unlocked = <<>>,
                          ![p].heldAtEntry = HeldBy(locks, p)]
  /\ UNCHANGED <<docker, locks, commits, failures, pc, images, stageImages,
                 imagesBySignature, buildingGitStage, result, restarts, fs>>

\* The stage images that are stale for p when its RenewPhase starts: known
\* to p as existing, in the store, of a git stage, labelled with a commit
\* the repository does not hold.
StaleImages(p) ==
  { sig \in { g \in GitSigs : StageImageName(g) \in DOMAIN stageImages[p] } :
      /\ stageImages[p][StageImageName(sig)].exists
      /\ docker[sig].exists
      /\ docker[sig].commit \notin commits }

\* The stage images p does not know as existing when its BuildPhase starts.
MissingImages(p) ==
  { sig \in AllSigs : /\ StageImageName(sig) \in DOMAIN stageImages[p]
                      /\ ~stageImages[p][StageImageName(sig)].exists }

\* runPush returns: its deferred calls run, the last deferred first.
RunPushDeferred == <<"ssh_agent.Terminate", "project_tmp_dir.Release">>

\* The driver's bound on restarts of the run.
MaxRestarts == 3

\* Faulty variant of isConveyorShouldBeResetError: every error restarts.
IsAnyError(err) == err # NoError

\* isConveyorShouldBeResetError: the error's text is the sentinel's text.
isConveyorShouldBeResetError(err) == err = ConveyorShouldBeReset

\* Faulty variant of CanRestart: the driver restarts without a bound.
CanRestartUnbounded(p) == TRUE

\* The driver restarts the run only while it has restarts left.
CanRestart(p) == restarts[p] < MaxRestarts

\* The driver discards the conveyor's state and reruns the phases: a fresh
\* image list, no stage images, an empty signature index.
RestartRun(p) ==
  /\ pc' = [pc EXCEPT ![p] = "signatures"]
  /\ loc' = [loc EXCEPT ![p] = EnterPhase("stage")]
  /\ images' = [images EXCEPT ![p] = ImagesInOrder]
  /\ stageImages' = [stageImages EXCEPT ![p] = <<>>]
  /\ imagesBySignature' = [imagesBySignature EXCEPT ![p] = {}]
  /\ buildingGitStage' = [buildingGitStage EXCEPT ![p] = [i \in ImageIdx |-> ""]]
  /\ restarts' = [restarts EXCEPT ![p] = @ + 1]
  /\ hist' = [hist EXCEPT ![p] =
                [NoHistory EXCEPT !.resetSigs = hist[p].resetSigs \cup hist[p].untagged,
                                  !.staleAtRunStart = hist[p].staleAtRunStart,
                                  !.prevAttempt = images[p],
                                  !.startedAfter = hist[p].startedAfter,
                                  !.returned = Append(hist[p].returned,
                                                      [phase |-> pc[p], err |-> loc[p].err,
                                                       restarted |-> TRUE])]]
  /\ UNCHANGED <<result, locks>>

\* The driver: Signatures, Renew, Prepare, Build in this order; the reset
\* sentinel restarts the run, any other error ends it with that error. When
\* the driver returns the process ends.
RunPhases(p) ==
  /\ pc[p] \in {"signatures", "renew", "prepare", "build"}
  /\ loc[p].step = "ret"
  /\ IF loc[p].err # NoError
     THEN IF isConveyorShouldBeResetError(loc[p].err) /\ CanRestart(p)
          THEN RestartRun(p)
          ELSE /\ pc' = [pc EXCEPT ![p] = "exited"]
               /\ locks' = ProcessExit(locks, p)
               /\ result' = [result EXCEPT ![p] = loc[p].err]
               /\ hist' = [hist EXCEPT ![p].returned =
                             Append(@, [phase |-> pc[p], err |-> loc[p].err,
                                        restarted |-> FALSE]),
                                        ![p].deferred = RunPushDeferred,
                                        ![p].heldAtReturn = HeldBy(locks, p)]
               /\ UNCHANGED <<loc, images, stageImages, imagesBySignature,
                              buildingGitStage, restarts>>
     ELSE /\ pc' = [pc EXCEPT ![p] =
                      CASE pc[p] = "signatures" -> "renew"
                        [] pc[p] = "renew" -> "prepare"
                        [] pc[p] = "prepare" -> "build"
                        [] pc[p] = "build" -> "exited"]
          /\ locks' = IF pc[p] = "build" THEN ProcessExit(locks, p) ELSE locks
          /\ loc' = [loc EXCEPT ![p] =
                       CASE pc[p] = "signatures" -> EnterPhase("lock")
                         [] pc[p] = "renew" -> EnterPhase("stage")
                         [] pc[p] = "prepare" -> EnterPhase("lock")
                         [] pc[p] = "build" -> loc[p]]
          /\ hist' = [hist EXCEPT
               ![p].phaseFailed = IF pc[p] = "build" THEN @ ELSE FALSE,
               ![p].staleAtStart =
                  IF pc[p] = "signatures" THEN StaleImages(p) ELSE @,
               ![p].staleAtRunStart =
                  IF pc[p] = "signatures" /\ restarts[p] = 0
                  THEN StaleImages(p) ELSE @,
               ![p].missingAtBuild =
                  IF pc[p] = "prepare" THEN MissingImages(p) ELSE @,
               ![p].heldAtEntry = HeldBy(locks, p),
               ![p].deferred = IF pc[p] = "build" THEN RunPushDeferred ELSE @,
               ![p].heldAtReturn = IF pc[p] = "build" THEN HeldBy(locks, p) ELSE @]
          /\ UNCHANGED <<result, images, stageImages, imagesBySignature,
                         buildingGitStage, restarts>>
  /\ UNCHANGED <<docker, commits, failures, fs>>


Next ==
  \E p \in Procs :
    \/ SignaturesPhase(p)
    \/ RenewLock(p)
    \/ RenewSync(p)
    \/ RenewCheck(p)
    \/ PrepareImagesPhase(p)
    \/ BuildLock(p)
    \/ BuildSync(p)
    \/ BuildStage(p)
    \/ BuildUnlock(p)
    \/ BuildRun(p)
    \/ RunPhases(p)

Spec == Init /\ [][Next]_vars

\* Another user of the container store (a pull, a load, a build on behalf
\* of an older checkout) tags a git stage image that carries the label of
\* the commit c1.
ForeignTag(sig) ==
  /\ sig \in GitSigs
  /\ ~docker[sig].exists
  /\ docker' = [docker EXCEPT ![sig] =
                  [exists |-> TRUE, commit |-> "c1", labels |-> DefaultLabels]]
  /\ UNCHANGED <<locks, commits, failures, pc, loc, images, stageImages,
                 imagesBySignature, buildingGitStage, result, restarts, fs, hist>>

\* One run while stale stage images keep appearing in the store.
RetryInit == InitRun({"p1"})

RetryNext ==
  \/ Next
  \/ \E sig \in GitSigs : ForeignTag(sig)

RetrySpec == RetryInit /\ [][RetryNext]_vars

(***************************************************************************)
(* The properties.                                                         *)
(***************************************************************************)

\* p's BuildPhase completed Build and SaveInCache on the stage image sig.
Saved(p, sig) ==
  \E k \in 1..Len(hist[p].builds) :
    hist[p].builds[k].sig = sig /\ hist[p].builds[k].outcome = "ok"

\* p's BuildPhase entered the build of the stage image sig.
Attempted(p, sig) ==
  \E k \in 1..Len(hist[p].builds) : hist[p].builds[k].sig = sig

\* The function `phase`.run of p has just returned to its caller.
Returned(p, phase) == pc[p] = phase /\ loc[p].step = "ret"

\* p's BuildPhase.Run has returned, now or earlier in a run that went on.
FinishedBuild(p) ==
  \/ Returned(p, "build")
  \/ pc[p] = "exited" /\ result[p] = NoError

\* Both processes ran BuildPhase to its end, and each started it without
\* the stage image sig.
BothBuild(p, q, sig) ==
  /\ FinishedBuild(p)
  /\ FinishedBuild(q)
  /\ sig \in hist[p].missingAtBuild \cap hist[q].missingAtBuild

\* One of p, q built sig; the other found it existing in its lock pass and
\* never entered its build.
OneBuilt(p, q, sig) ==
  \E b \in {p, q} : \A o \in {p, q} \ {b} :
    Saved(b, sig) /\ ~Attempted(o, sig) /\ sig \in hist[o].observed

C2_UnlocksBuiltStage ==
  \A p \in Procs : \A k \in 1..Len(hist[p].unlocks) :
    hist[p].unlocks[k].lockName = hist[p].unlocks[k].built

\* C3: when RenewPhase.run returns, on any path, p holds no lock it did not
\* hold when the phase started.
C3_RenewReleasesLocks ==
  \A p \in Procs :
    Returned(p, "renew") => HeldBy(locks, p) = hist[p].heldAtEntry

\* How often the lock name n was counted in cnt.
CountOf(cnt, n) == IF n \in DOMAIN cnt THEN cnt[n] ELSE 0

\* C4: BuildPhase.runImage never unlocks a name more often than it locked
\* it, and when it returns, normally or with an error, every lock of its
\* lock pass was unlocked as often as locked, acquiredLocks is empty and
\* the process holds its locks exactly as deep as at runImage's entry.
C4_RunImageLocksBalanced ==
  \A p \in Procs :
    /\ \A n \in LockNames : CountOf(hist[p].unlocked, n) <= CountOf(hist[p].locked, n)
    /\ (pc[p] = "build" /\ loc[p].step = "runImageRet")
         => /\ hist[p].unlocked = hist[p].locked
            /\ loc[p].acquiredLocks = <<>>
            /\ HeldBy(locks, p) = hist[p].heldAtEntry

C4_Witness ==
  \E p \in Procs : \E n \in LockNames :
    /\ pc[p] = "build" /\ loc[p].step = "runImageRet"
    /\ loc[p].err # NoError
    /\ CountOf(hist[p].locked, n) > 0

\* C5: whenever BuildPhase.Run returns without error, every stage of every
\* image has a stage image with IsExists()==true.
C5_BuiltImagesExist ==
  \A p \in Procs :
    (Returned(p, "build") /\ loc[p].err = NoError)
      => \A i \in 1..Len(images[p]) : \A k \in 1..Len(images[p][i].stages) :
           stageImages[p][images[p][i].stages[k].image].exists

\* C6: if PreRunHook, Build or SaveInCache failed for some stage, or a stage
\* lock could not be acquired, BuildPhase.Run returns a non-nil error.
C6_BuildFailureReturned ==
  \A p \in Procs :
    (Returned(p, "build") /\ (hist[p].stageFailed \/ hist[p].lockFailed))
      => loc[p].err # NoError

\* C7: after the first stage failure in BuildPhase no later stage, of the
\* same or of a later image, is built in that phase run.
C7_NoBuildAfterFailure ==
  \A p \in Procs : \A k \in 1..Len(hist[p].builds) :
    hist[p].builds[k].outcome # "preRunHook" => ~hist[p].builds[k].afterFailure

\* C8: after PrepareImagesPhase.run returned without error, every stage of
\* every image whose stage image does not exist is registered under its
\* signature, with PrepareImage called and the default labels added.
C8_PrepareCoversEveryImage ==
  \A p \in Procs :
    (Returned(p, "prepare") /\ loc[p].err = NoError)
      => \A i \in 1..Len(images[p]) : \A k \in 1..Len(images[p][i].stages) :
           LET sig == images[p][i].stages[k].signature
               img == stageImages[p][images[p][i].stages[k].image]
           IN  ~img.exists
                 => /\ sig \in imagesBySignature[p]
                    /\ img.prepared
                    /\ DefaultLabels \subseteq img.labels

\* C9: every stage image on which BuildPhase calls Build carries the
\* default labels PrepareImagesPhase added earlier in the same run.
C9_BuiltWithDefaultLabels ==
  \A p \in Procs : \A k \in 1..Len(hist[p].builds) :
    hist[p].builds[k].outcome # "preRunHook"
      => DefaultLabels \subseteq hist[p].builds[k].labels

ReturnedError(p) ==
  /\ pc[p] \in {"signatures", "renew", "prepare", "build"}
  /\ loc[p].step = "ret"
  /\ loc[p].err # NoError

\* C11: isConveyorShouldBeResetError is true for the error RenewPhase.Run
\* returns when it reset some stage and ended without a failure, and false
\* for every other error a phase returns; the driver restarts the run on
\* the sentinel only, and any other error ends the run as its result.
C11_ResetRecognisedExactly ==
  \A p \in Procs :
    /\ ReturnedError(p)
         => (isConveyorShouldBeResetError(loc[p].err)
               <=> /\ pc[p] = "renew"
                   /\ loc[p].conveyorShouldBeReset
                   /\ hist[p].untagged # {}
                   /\ ~hist[p].phaseFailed)
    /\ \A k \in 1..Len(hist[p].returned) :
         LET r == hist[p].returned[k] IN
         IF r.restarted
         THEN r.phase = "renew" /\ r.err = ConveyorShouldBeReset
         ELSE /\ (r.err = ConveyorShouldBeReset => k = MaxRestarts + 1)
              /\ k = Len(hist[p].returned)
              /\ pc[p] = "exited"
              /\ result[p] = r.err

C11_Witness ==
  \E p \in Procs :
    /\ Len(hist[p].returned) = 2
    /\ hist[p].returned[1].restarted
    /\ ~hist[p].returned[2].restarted
    /\ hist[p].returned[2].phase = "renew"
    /\ result[p] = hist[p].returned[2].err

\* p's driver is at the start of an attempt of the run.
AttemptStarts(p) == pc[p] = "signatures" /\ loc[p] = EnterPhase("stage")

\* C12: the driver restarts the run at most MaxRestarts (three) times, also
\* when RenewPhase signals reset on every attempt; every restart answers a
\* reset sentinel and starts from a rebuilt Conveyor (the configured image
\* list, no stage images, an empty signature index); and the run that
\* ends with the sentinel has used up its restarts.
C12_DriverRestartsBounded ==
  \A p \in Procs :
    /\ restarts[p] <= MaxRestarts
    /\ AttemptStarts(p)
         => /\ images[p] = ImagesInOrder
            /\ DOMAIN stageImages[p] = {}
            /\ imagesBySignature[p] = {}
    /\ Cardinality({ k \in 1..Len(hist[p].returned) :
                       hist[p].returned[k].err = ConveyorShouldBeReset
                       /\ hist[p].returned[k].restarted }) = restarts[p]
    /\ (pc[p] = "exited" /\ result[p] = ConveyorShouldBeReset)
         => restarts[p] = MaxRestarts

C12_Witness ==
  \E p \in Procs :
    /\ pc[p] = "exited"
    /\ result[p] = ConveyorShouldBeReset
    /\ restarts[p] = MaxRestarts
    /\ Len(hist[p].returned) = MaxRestarts + 1

\* p's run has ended.
RunEnded(p) == pc[p] = "exited"

RECURSIVE ChainedFrom(_, _)
\* The stage list ss continues the signature chain that stands at prevSig:
\* each signature is the hash of the stage's dependencies, the cache
\* version and the signature of the stage before it in the list.
ChainedFrom(ss, prevSig) ==
  \/ ss = <<>>
  \/ /\ Head(ss).signature =
          Sha256Hash(IF prevSig = <<>>
                     THEN <<Head(ss).deps, "33">>
                     ELSE <<Head(ss).deps, "33", prevSig>>)
     /\ ChainedFrom(Tail(ss), Head(ss).signature)

\* Per configured image, its stages that are not empty, in order.
NonEmptyStages ==
  [i \in ImageIdx |->
     SelectSeq(ImagesInOrder[i].stages, LAMBDA s : ~(s.isGit /\ s.gitPaths = <<>>))]

\* SignaturesPhase of p has replaced the stage list of image i
\* (image.SetStages).
StagesSet(p, i) == images[p][i] # ImagesInOrder[i]

\* C14: the signature of every non-empty stage is the hash of its
\* dependencies, the cache version "33" and the signature of the previous
\* non-empty stage of its image (the first takes dependencies and version
\* only); empty stages take no part in the chain; and the stage's image is
\* named image-stage-{project}:{signature}.
C14_SignatureChain ==
  \A p \in Procs : \A i \in ImageIdx :
    StagesSet(p, i)
      => /\ Len(images[p][i].stages) = Len(NonEmptyStages[i])
         /\ ChainedFrom(images[p][i].stages, <<>>)
         /\ \A k \in 1..Len(images[p][i].stages) :
              LET s == images[p][i].stages[k] IN
              /\ s.name = NonEmptyStages[i][k].name
              /\ s.deps = NonEmptyStages[i][k].deps
              /\ stageImages[p][s.image].name
                   = <<"image-stage", ProjectName, s.signature>>

C14_Witness ==
  \E p \in Procs :
    /\ Returned(p, "signatures") /\ loc[p].err = NoError
    /\ Len(images[p][2].stages) = 2
    /\ images[p][2].stages[2].name = "gitLatestPatch"
    /\ images[p][2].stages[2].signature
         = <<"d3", "33", images[p][2].stages[1].signature>>

\* C15: the signatures SignaturesPhase assigns depend on the configuration
\* only: two processes, and two attempts of one run, assign the same
\* signatures to the same stages of an image, whichever stage images each
\* of them found in the container store.
C15_SignaturesDeterministic ==
  \A p \in Procs : \A i \in ImageIdx :
    StagesSet(p, i)
      => /\ \A q \in Procs \ {p} :
              StagesSet(q, i) => images[q][i].stages = images[p][i].stages
         /\ hist[p].prevAttempt # <<>>
              => images[p][i].stages = hist[p].prevAttempt[i].stages

C15_Witness ==
  \E p \in Procs : \E q \in Procs \ {p} : \E sig \in AllSigs :
    /\ \A i \in ImageIdx : StagesSet(p, i) /\ StagesSet(q, i)
    /\ sig \in hist[p].existingAtSign \ hist[p].absentAtSign
    /\ sig \in hist[q].absentAtSign \ hist[q].existingAtSign
    /\ images[p] = images[q]
    /\ hist[p].prevAttempt # <<>>

\* The stages of p's images that carry a signature, as <<image, stage>>.
SignedStagesOf(p) ==
  UNION { { <<i, k>> : k \in { j \in 1..Len(images[p][i].stages) :
                                images[p][i].stages[j].signature # <<>> } } :
          i \in ImageIdx }

\* C16: two stages with equal signatures, of one image or of two, have the
\* same StageImage object attached; so once the process has built the image
\* through one of them, every stage of that signature sees it as existing.
C16_EqualSignaturesShareImage ==
  \A p \in Procs : \A i \in ImageIdx : \A j \in ImageIdx :
    \A k \in 1..Len(images[p][i].stages) : \A l \in 1..Len(images[p][j].stages) :
      LET sa == images[p][i].stages[k]
          sb == images[p][j].stages[l]
      IN  (sa.signature # <<>> /\ sa.signature = sb.signature)
            => /\ sa.image = sb.image
               /\ Saved(p, sa.signature) => stageImages[p][sb.image].exists

C16_Witness ==
  \E p \in Procs : \E a \in SignedStagesOf(p) : \E b \in SignedStagesOf(p) :
    /\ a[1] # b[1]
    /\ images[p][a[1]].stages[a[2]].signature = images[p][b[1]].stages[b[2]].signature
    /\ images[p][a[1]].stages[a[2]].image = images[p][b[1]].stages[b[2]].image
    /\ Saved(p, images[p][a[1]].stages[a[2]].signature)
    /\ Returned(p, "build")

\* The entries of p's build history in which Build was called (PreRunHook
\* had succeeded).
BuildCalls(p) ==
  { k \in 1..Len(hist[p].builds) : hist[p].builds[k].outcome # "preRunHook" }

\* C17: within one run BuildPhase calls Build at most once per stage
\* signature: a stage shared by two images is built while the first is
\* processed and skipped as existing while the second is.
C17_BuildOncePerSignature ==
  \A p \in Procs : \A k \in BuildCalls(p) : \A m \in BuildCalls(p) :
    hist[p].builds[k].sig = hist[p].builds[m].sig => k = m

\* C18: a run that starts after another run over the same configuration
\* has completed without error, with the container store and the repository
\* as that run left them, calls Build for no stage.
C18_SecondRunBuildsNothing ==
  \A p \in Procs :
    hist[p].startedAfter # {} => BuildCalls(p) = {}

\* C19: when SignaturesPhase has returned without error, the stage list of
\* every image holds exactly the configured stages that are not empty, in
\* their configured order, each with a signature and with a stage image
\* attached whose state was synchronised with the container store.
C19_NonEmptyStagesSigned ==
  \A p \in Procs :
    (Returned(p, "signatures") /\ loc[p].err = NoError)
      => \A i \in ImageIdx :
           /\ Len(images[p][i].stages) = Len(NonEmptyStages[i])
           /\ \A k \in 1..Len(images[p][i].stages) :
                LET s == images[p][i].stages[k] IN
                /\ s.name = NonEmptyStages[i][k].name
                /\ s.signature # <<>>
                /\ s.image \in DOMAIN stageImages[p]
                /\ stageImages[p][s.image].synced

C19_Witness ==
  \E p \in Procs :
    /\ Returned(p, "signatures") /\ loc[p].err = NoError
    /\ Len(images[p][1].stages) = 2
    /\ Len(ImagesInOrder[1].stages) = 3
    /\ images[p][2].stages[2].name = "gitLatestPatch"
    /\ stageImages[p][images[p][2].stages[2].image].synced
    /\ stageImages[p][images[p][2].stages[2].image].exists

\* C20 as stated: after SignaturesPhase the building-git-stage slot of every
\* image was set by exactly one stage, the first git stage whose stage
\* image did not exist when its hook ran.
C20_Original ==
  \A p \in Procs :
    (Returned(p, "signatures") /\ loc[p].err = NoError)
      => \A i \in ImageIdx :
           /\ Len(hist[p].gitSetters[i]) = 1
           /\ hist[p].missingGit[i] # <<>>
           /\ buildingGitStage[p][i] = Head(hist[p].missingGit[i])

\* C20 amended: the slot of an image is set at most once in a run of the
\* phases and never overwritten; while no git stage of the image has met a
\* missing stage image in its hook the slot is empty, and from the first
\* such stage on it names that stage.
C20_FirstMissingGitStage ==
  \A p \in Procs : \A i \in ImageIdx :
    /\ Len(hist[p].gitSetters[i]) <= 1
    /\ IF hist[p].missingGit[i] = <<>>
       THEN buildingGitStage[p][i] = "" /\ hist[p].gitSetters[i] = <<>>
       ELSE /\ buildingGitStage[p][i] = Head(hist[p].missingGit[i])
            /\ hist[p].gitSetters[i] = <<Head(hist[p].missingGit[i])>>

C20_Witness ==
  \E p \in Procs :
    /\ Returned(p, "signatures") /\ loc[p].err = NoError
    /\ hist[p].missingGit[2] = <<"gitArchive", "gitLatestPatch">>
    /\ buildingGitStage[p][2] = "gitArchive"
    /\ hist[p].missingGit[1] = <<>>
    /\ buildingGitStage[p][1] = ""

\* C29: when runPush has returned, with or without an error, the ssh-agent
\* was terminated and after it the project tmp dir released, and the process
\* held none of the locks it acquired during the run.
C29_RunPushReleasesAll ==
  \A p \in Procs :
    hist[p].deferred # <<>> =>
      /\ hist[p].deferred = <<"ssh_agent.Terminate", "project_tmp_dir.Release">>
      /\ \A n \in LockNames : CountOf(hist[p].heldAtReturn, n) = 0

\* p takes a turn of RenewPhase.run's second loop in this step.
RenewCheckStep(p) ==
  pc[p] = "renew" /\ loc[p].step = "check" /\ loc'[p] # loc[p]

\* C32: RenewPhase.run's second loop goes through every stage of every
\* image: on a stage image that exists it untags the image exactly when a
\* git path's labelled commit is missing, and then goes on with the next
\* stage; it returns only after the last stage of the last image, the
\* sentinel if it untagged a stage and nil otherwise; when ShouldBeReset or
\* Untag fails it returns that error, whatever it untagged before.
C32_RenewChecksEveryStage ==
  [][\A p \in Procs :
       RenewCheckStep(p) =>
         LET s == CurStage(p)
             img == stageImages[p][s.image]
             stale == /\ img.exists
                      /\ s.isGit /\ s.gitPaths # <<>>
                      /\ img.commit \notin commits
             last == /\ loc[p].i = Len(images[p])
                     /\ loc[p].k = Len(CurImage(p).stages)
         IN  IF failures' = failures
             THEN /\ hist'[p].untagged =
                       IF stale THEN hist[p].untagged \cup {s.signature}
                       ELSE hist[p].untagged
                  /\ stale => ~docker'[s.signature].exists
                  /\ ~stale => docker' = docker
                  /\ \A sig \in AllSigs \ {s.signature} : docker'[sig] = docker[sig]
                  /\ loc'[p].step = "ret" <=> last
                  /\ ~last =>
                       \/ loc'[p].i = loc[p].i /\ loc'[p].k = loc[p].k + 1
                       \/ /\ loc[p].k = Len(CurImage(p).stages)
                          /\ loc'[p].i = loc[p].i + 1 /\ loc'[p].k = 1
                  /\ last =>
                       loc'[p].err = IF hist'[p].untagged # {}
                                     THEN ConveyorShouldBeReset ELSE NoError
             ELSE /\ loc'[p].step = "ret"
                  /\ loc'[p].err \notin {NoError, ConveyorShouldBeReset}
                  /\ hist'[p].untagged = hist[p].untagged
                  /\ docker' = docker]_vars

\* The phase untagged the shared first stage of image A and went on to the
\* stale last stage of image B: it untagged that one too and returned the
\* sentinel after it.
C32_Witness ==
  \E p \in Procs :
    /\ Returned(p, "renew")
    /\ loc[p].err = ConveyorShouldBeReset
    /\ loc[p].i = Len(images[p])
    /\ Cardinality(hist[p].untagged) = 2

C34_RecordedGitStageBuilt ==
  \A p \in Procs :
    (Returned(p, "build") /\ ~hist[p].phaseFailed)
      => \A i \in ImageIdx :
           buildingGitStage[p][i] # ""
             => \E k \in 1..Len(images[p][i].stages) :
                  /\ images[p][i].stages[k].name = buildingGitStage[p][i]
                  /\ Saved(p, images[p][i].stages[k].signature)

\* p stands in lock.Lock of a lock pass (RenewPhase locks the stage images
\* that exist, BuildPhase those that do not) and q holds that lock.
WaitsFor(p, q) ==
  /\ pc[p] \in {"renew", "build"}
  /\ loc[p].step = "lock"
  /\ stageImages[p][CurStage(p).image].exists <=> pc[p] = "renew"
  /\ locks[ImageLockName(CurStage(p).signature)].holder = q

\* C35, no circular wait: a process never waits for a stage-image lock its
\* peer holds while the peer waits for a lock this process holds.
C35_NoCircularWait ==
  \A p \in Procs : \A q \in Procs \ {p} : ~(WaitsFor(p, q) /\ WaitsFor(q, p))

(***************************************************************************)
(* The git facade and the configuration helpers, each run on its own.     *)
(***************************************************************************)

\* The conveyor's variables, which the git operations leave alone.
conveyorVars ==
  <<docker, commits, failures, images, stageImages, imagesBySignature,
    buildingGitStage, restarts, hist>>

\* No conveyor is running: an empty store, the head commit only.
NoConveyor ==
  /\ docker = [sig \in AllSigs |-> AbsentImage]
  /\ commits = {HeadCommit}
  /\ failures = 0
  /\ images = [p \in Procs |-> ImagesInOrder]
  /\ stageImages = [p \in Procs |-> <<>>]
  /\ imagesBySignature = [p \in Procs |-> {}]
  /\ buildingGitStage = [p \in Procs |-> [i \in ImageIdx |-> ""]]
  /\ restarts = [p \in Procs |-> 0]
  /\ hist = [p \in Procs |-> NoHistory]

\* The sequences over S of length at most n.
SeqsUpTo(S, n) == UNION { [1..k -> S] : k \in 0..n }

\* The commit ids a label can carry; "" is a label that is no commit hash.
CommitLabels == {"c1", "c2", ""}

\* The largest number of git paths of a stage.
MaxGitPaths == 2

\* The repositories ShouldBeReset can meet: it opens or not, it holds some
\* commits, and some of its commit objects cannot be read.
Repositories ==
  { [opens |-> o, commits |-> cs, unreadable |-> bad] :
      o \in BOOLEAN, cs \in SUBSET {"c1", "c2"}, bad \in SUBSET {"c1", "c2"} }

\* Base.isCommitExists: the repository is opened, the commit string parsed
\* and the commit object looked up; only ErrObjectNotFound means "no".
isCommitExists(repo, commit) ==
  IF ~repo.opens THEN [exist |-> FALSE, err |-> "cannot open repo"]
  ELSE IF commit = "" THEN [exist |-> FALSE, err |-> "bad commit hash"]
  ELSE IF commit \in repo.unreadable THEN [exist |-> FALSE, err |-> "bad commit"]
  ELSE IF commit \notin repo.commits THEN [exist |-> FALSE, err |-> NoError]
  ELSE [exist |-> TRUE, err |-> NoError]

\* Faulty variant of ResetVerdict: a commit that exists resets the stage.
ResetVerdictInverted(r) ==
  IF r.err # NoError THEN "error" ELSE IF r.exist THEN "reset" ELSE "next"

\* GitStage.ShouldBeReset, one iteration: what the loop does with the answer
\* of IsCommitExists.
ResetVerdict(r) ==
  IF r.err # NoError THEN "error" ELSE IF ~r.exist THEN "reset" ELSE "next"

\* A call of GitStage.ShouldBeReset(builtImage): labels[g] is the commit
\* label of the stage's g-th git path on builtImage.
ResetInit ==
  /\ NoConveyor
  /\ locks = [n \in LockNames |-> FreeLock]
  /\ fs = NoFiles
  /\ pc = [p \in Procs |-> IF p = "p1" THEN "shouldBeReset" ELSE "exited"]
  /\ loc \in { [p \in Procs |-> [labels |-> ls, repo |-> r, g |-> 1, ret |-> FALSE]] :
                 ls \in SeqsUpTo(CommitLabels, MaxGitPaths), r \in Repositories }
  /\ result = [p \in Procs |-> NoError]

\* GitStage.ShouldBeReset: one turn of the loop over s.gitPaths, or the
\* return after the loop.
GitStageShouldBeReset(p) ==
  /\ pc[p] = "shouldBeReset"
  /\ LET l == loc[p]
         v == IF l.g > Len(l.labels) THEN "done"
              ELSE ResetVerdict(isCommitExists(l.repo, l.labels[l.g]))
     IN  CASE v = "done" ->
                /\ pc' = [pc EXCEPT ![p] = "returned"]
                /\ loc' = [loc EXCEPT ![p].ret = FALSE]
                /\ UNCHANGED result
           [] v = "error" ->
                /\ pc' = [pc EXCEPT ![p] = "returned"]
                /\ loc' = [loc EXCEPT ![p].ret = FALSE]
                /\ result' = [result EXCEPT ![p] =
                                isCommitExists(l.repo, l.labels[l.g]).err]
           [] v = "reset" ->
                /\ pc' = [pc EXCEPT ![p] = "returned"]
                /\ loc' = [loc EXCEPT ![p].ret = TRUE]
                /\ UNCHANGED result
           [] v = "next" ->
                /\ loc' = [loc EXCEPT ![p].g = @ + 1]
                /\ UNCHANGED <<pc, result>>
  /\ UNCHANGED <<conveyorVars, locks, fs>>

ResetNext == \E p \in Procs : GitStageShouldBeReset(p)

ResetSpec == ResetInit /\ [][ResetNext]_vars

\* The answers of IsCommitExists: the commit is there, it is not, the
\* lookup failed.
Answer(l, g) ==
  LET r == isCommitExists(l.repo, l.labels[g])
  IN  IF r.err # NoError THEN "failed" ELSE IF r.exist THEN "exists" ELSE "missing"

\* The git paths of the call for which IsCommitExists gives `answer`, every
\* earlier path's commit existing.
ReachedWith(l, answer) ==
  { g \in 1..Len(l.labels) :
      /\ Answer(l, g) = answer
      /\ \A h \in 1..(g - 1) : Answer(l, h) = "exists" }

\* C21: ShouldBeReset returns (true, nil) exactly when some git path's
\* labelled commit is missing from the repository and IsCommitExists did not
\* fail before it; it returns (false, error) exactly when IsCommitExists
\* fails before a missing commit is found; (false, nil) when every labelled
\* commit exists, so also for a stage without git paths.
C21_ShouldBeResetContract ==
  \A p \in Procs :
    pc[p] = "returned" =>
      LET l == loc[p]
          missing == \E g \in 1..Len(l.labels) : Answer(l, g) = "missing"
      IN  /\ (l.ret /\ result[p] = NoError) <=> ReachedWith(l, "missing") # {}
          /\ (~l.ret /\ result[p] # NoError) <=> ReachedWith(l, "failed") # {}
          /\ l.ret => missing /\ result[p] = NoError
          /\ (\A g \in 1..Len(l.labels) : Answer(l, g) = "exists")
               => ~l.ret /\ result[p] = NoError
          /\ result[p] # NoError =>
               \E g \in ReachedWith(l, "failed") :
                 result[p] = isCommitExists(l.repo, l.labels[g]).err

\* A call that found the second path's commit missing after the first
\* path's commit existed.
C21_Witness ==
  /\ pc["p1"] = "returned"
  /\ loc["p1"].ret
  /\ Len(loc["p1"].labels) = 2
  /\ ReachedWith(loc["p1"], "missing") = {2}

(***************************************************************************)
(* Remote.CloneAndFetch by two processes on one cached clone.              *)
(***************************************************************************)

\* withRemoteRepoLock: the lock of the remote repository's clone.
RemoteRepoLockName == "remote_git_path.repo"

\* withWorkTreeLock: the lock of the work-tree directory.
WorkTreeLockName == "git_work_tree /worktree"

GitLockNames == {RemoteRepoLockName, WorkTreeLockName}

\* repo.Url, the url the configuration names now.
RemoteUrl == "new"

\* The cached clone as an earlier run left it: none, or one whose config
\* file names some origin url.
Clones ==
  { NoFiles } \cup
  { [NoFiles EXCEPT !.cloneExists = TRUE, !.originUrl = u] : u \in {"old", RemoteUrl} }

\* lock.WithLock returns: the lock is released whatever f returned.
WithLockReturn(lk, p, name) == Unlock(lk, p, name)

\* The call returns to the process, which goes on to `next`.
GitReturn(p, next, err) ==
  /\ pc' = [pc EXCEPT ![p] = next]
  /\ result' = [result EXCEPT ![p] = err]

RemoteInit ==
  /\ NoConveyor
  /\ locks = [n \in GitLockNames |-> FreeLock]
  /\ fs \in Clones
  /\ pc = [p \in Procs |-> "clone"]
  /\ loc \in [Procs -> { [isDryRun |-> d, isCloned |-> FALSE, created |-> FALSE] :
                           d \in BOOLEAN }]
  /\ result = [p \in Procs |-> NoError]

\* Remote.Clone up to withRemoteRepoLock: a dry run and an existing clone
\* return (false, nil), and CloneAndFetch goes on to Fetch; otherwise the
\* first result of Clone is true, whatever happens inside the lock.
RemoteClone(p) ==
  /\ pc[p] = "clone"
  /\ \/ /\ loc[p].isDryRun \/ fs.cloneExists
        /\ GitReturn(p, "fetch", NoError)
        /\ UNCHANGED loc
     \/ /\ ~loc[p].isDryRun
        /\ GitReturn(p, "exited", "cannot clone git repo")
        /\ UNCHANGED loc
     \/ /\ ~loc[p].isDryRun /\ ~fs.cloneExists
        /\ GitReturn(p, "cloneLock", NoError)
        /\ loc' = [loc EXCEPT ![p].isCloned = TRUE]
  /\ UNCHANGED <<conveyorVars, locks, fs>>

\* Faulty variant of PlainCloneIntoClonePath: the repository is cloned
\* straight into repo.ClonePath.
PlainCloneInPlace == TRUE

\* Remote.Clone: whether git.PlainClone writes into repo.ClonePath; it
\* writes into a fresh directory /tmp/werf-git-repo-{uuid}.
PlainCloneIntoClonePath == FALSE

\* Remote.Clone inside withRemoteRepoLock, up to the rename: the lock is
\* taken (or times out), the clone is looked for again, the repository is
\* cloned into a fresh directory under /tmp.
RemoteCloneLocked(p) ==
  /\ pc[p] = "cloneLock"
  /\ IF ~CanLock(p, RemoteRepoLockName)
     THEN /\ GitReturn(p, "exited", "lock timeout")
          /\ UNCHANGED <<locks, fs>>
     ELSE \/ /\ fs.cloneExists
             /\ GitReturn(p, "exited", NoError)
             /\ UNCHANGED <<locks, fs>>
          \/ /\ GitReturn(p, "exited", "clone failed")
             /\ UNCHANGED <<locks, fs>>
          \/ /\ ~fs.cloneExists
             /\ locks' = Lock(locks, p, RemoteRepoLockName)
             /\ fs' = [fs EXCEPT !.writers = @ \cup {p},
                                 !.cloneExists = PlainCloneIntoClonePath,
                                 !.partial = PlainCloneIntoClonePath]
             /\ GitReturn(p, "cloneRename", NoError)
  /\ UNCHANGED <<conveyorVars, loc>>

\* Remote.Clone: os.MkdirAll and os.Rename put the clone in place; the
\* closure returns and the lock is released. CloneAndFetch returns without
\* a fetch, Clone having returned true.
RemoteCloneRename(p) ==
  /\ pc[p] = "cloneRename"
  /\ \/ /\ fs' = [fs EXCEPT !.cloneExists = TRUE, !.partial = FALSE,
                            !.originUrl = RemoteUrl, !.writers = @ \ {p}]
        /\ GitReturn(p, "exited", NoError)
        /\ loc' = [loc EXCEPT ![p].created = TRUE]
     \/ /\ fs' = [fs EXCEPT !.writers = @ \ {p}]
        /\ GitReturn(p, "exited", "rename failed")
        /\ UNCHANGED loc
  /\ locks' = WithLockReturn(locks, p, RemoteRepoLockName)
  /\ UNCHANGED conveyorVars

\* Remote.Fetch: the url of the clone's config file differs from repo.Url,
\* so the file is rewritten.
FetchConfigUrl(p) == fs.originUrl # RemoteUrl

\* Remote.Fetch up to withRemoteRepoLock: the config file is loaded and,
\* when its origin url is not repo.Url, saved with the new url.
RemoteFetch(p) ==
  /\ pc[p] = "fetch"
  /\ IF loc[p].isDryRun
     THEN /\ GitReturn(p, "exited", NoError)
          /\ UNCHANGED fs
     ELSE \/ /\ GitReturn(p, "exited", "cannot load repo config")
             /\ UNCHANGED fs
          \/ /\ fs.cloneExists
             /\ IF FetchConfigUrl(p)
                THEN /\ fs' = [fs EXCEPT !.writers = @ \cup {p}]
                     /\ GitReturn(p, "saveConfig", NoError)
                ELSE /\ GitReturn(p, "fetchLock", NoError)
                     /\ UNCHANGED fs
  /\ UNCHANGED <<conveyorVars, locks, loc>>

\* Remote.Fetch: cfg.SaveTo has written the config file, or failed.
RemoteSaveConfig(p) ==
  /\ pc[p] = "saveConfig"
  /\ \/ /\ fs' = [fs EXCEPT !.originUrl = RemoteUrl, !.writers = @ \ {p}]
        /\ GitReturn(p, "fetchLock", NoError)
     \/ /\ fs' = [fs EXCEPT !.writers = @ \ {p}]
        /\ GitReturn(p, "exited", "cannot update url of repo")
  /\ UNCHANGED <<conveyorVars, locks, loc>>

\* Remote.Fetch inside withRemoteRepoLock: the lock is taken (or times
\* out), the repository opened and the fetch started.
RemoteFetchLocked(p) ==
  /\ pc[p] = "fetchLock"
  /\ IF ~CanLock(p, RemoteRepoLockName)
     THEN /\ GitReturn(p, "exited", "lock timeout")
          /\ UNCHANGED <<locks, fs>>
     ELSE \/ /\ GitReturn(p, "exited", "cannot open repo")
             /\ UNCHANGED <<locks, fs>>
          \/ /\ locks' = Lock(locks, p, RemoteRepoLockName)
             /\ fs' = [fs EXCEPT !.writers = @ \cup {p}]
             /\ GitReturn(p, "fetching", NoError)
  /\ UNCHANGED <<conveyorVars, loc>>

\* Remote.Fetch: rawRepo.Fetch ends; the closure returns and the lock is
\* released.
RemoteFetchDone(p) ==
  /\ pc[p] = "fetching"
  /\ fs' = [fs EXCEPT !.writers = @ \ {p}]
  /\ locks' = WithLockReturn(locks, p, RemoteRepoLockName)
  /\ \E err \in {NoError, "cannot fetch remote"} : GitReturn(p, "exited", err)
  /\ UNCHANGED <<conveyorVars, loc>>

RemoteNext ==
  \E p \in Procs :
    \/ RemoteClone(p)
    \/ RemoteCloneLocked(p)
    \/ RemoteCloneRename(p)
    \/ RemoteFetch(p)
    \/ RemoteSaveConfig(p)
    \/ RemoteFetchLocked(p)
    \/ RemoteFetchDone(p)

RemoteSpec == RemoteInit /\ [][RemoteNext]_vars

\* C22: whoever is changing the cached clone (creating it, rewriting its
\* config file, fetching into it) holds the remote_git_path lock, so no two
\* processes change it at the same time.
C22_CloneMutatedUnderLock ==
  /\ \A p \in fs.writers : locks[RemoteRepoLockName].holder = p
  /\ Cardinality(fs.writers) <= 1

\* The processes whose call of Clone put the clone in place.
Creators == { p \in Procs : loc[p].created }

\* Every call of CloneAndFetch has returned.
AllReturned == \A p \in Procs : pc[p] = "exited"

C37_ClonedMeansCreated ==
  \A p \in Procs :
    (pc[p] = "exited" /\ result[p] = NoError /\ loc[p].isCloned)
      => loc[p].created

(***************************************************************************)
(* createPatch, createArchive and checksum by two processes on one         *)
(* work-tree directory.                                                    *)
(***************************************************************************)

WorkTreeOps == {"createPatch", "createArchive", "checksum"}

\* Faulty variant of TakesWorkTreeLock: createArchive locks as createPatch
\* does, only for a commit with submodules.
TakesLockForSubmodules(op, hasSubmodules) == op = "checksum" \/ hasSubmodules

\* Whether the operation calls withWorkTreeLock: createPatch does when the
\* `to` commit has .gitmodules, createArchive and checksum always do.
TakesWorkTreeLock(op, hasSubmodules) == op # "createPatch" \/ hasSubmodules

\* Whether the operation's git call is given workTreeDir: true_git.Patch is
\* not, every other call is.
UsesWorkTree(op, hasSubmodules) == op # "createPatch" \/ hasSubmodules

WorkTreeInit ==
  /\ NoConveyor
  /\ locks = [n \in GitLockNames |-> FreeLock]
  /\ fs = [NoFiles EXCEPT !.cloneExists = TRUE, !.originUrl = RemoteUrl]
  /\ pc = [p \in Procs |-> "open"]
  /\ loc \in [Procs -> { [op |-> o, hasSubmodules |-> h, touched |-> FALSE] :
                           o \in WorkTreeOps, h \in BOOLEAN }]
  /\ result = [p \in Procs |-> NoError]

\* The operation up to its git call: the repository is opened, the commits
\* are looked up, .gitmodules is looked for, the output file is opened.
WorkTreeOpen(p) ==
  /\ pc[p] = "open"
  /\ \/ GitReturn(p, "exited", "cannot open repo")
     \/ GitReturn(p, IF TakesWorkTreeLock(loc[p].op, loc[p].hasSubmodules)
                     THEN "lock" ELSE "run", NoError)
  /\ UNCHANGED <<conveyorVars, locks, loc, fs>>

\* withWorkTreeLock: the lock is taken, or times out; the closure starts.
WorkTreeLock(p) ==
  /\ pc[p] = "lock"
  /\ IF CanLock(p, WorkTreeLockName)
     THEN /\ locks' = Lock(locks, p, WorkTreeLockName)
          /\ GitReturn(p, "run", NoError)
     ELSE /\ GitReturn(p, "exited", "lock timeout")
          /\ UNCHANGED locks
  /\ UNCHANGED <<conveyorVars, loc, fs>>

\* The git call starts: PatchWithSubmodules, Archive, ArchiveWithSubmodules,
\* PrepareWorkTree or PrepareWorkTreeWithSubmodules enter the work tree,
\* Patch does not.
WorkTreeRun(p) ==
  /\ pc[p] = "run"
  /\ IF UsesWorkTree(loc[p].op, loc[p].hasSubmodules)
     THEN /\ fs' = [fs EXCEPT !.users = @ \cup {p}]
          /\ loc' = [loc EXCEPT ![p].touched = TRUE]
     ELSE UNCHANGED <<fs, loc>>
  /\ GitReturn(p, "running", NoError)
  /\ UNCHANGED <<conveyorVars, locks>>

\* The git call (for checksum the file scan too) ends, with or without an
\* error; a closure of withWorkTreeLock returns and the lock is released.
WorkTreeDone(p) ==
  /\ pc[p] = "running"
  /\ fs' = [fs EXCEPT !.users = @ \ {p}]
  /\ locks' = WithLockReturn(locks, p, WorkTreeLockName)
  /\ \E err \in {NoError, "git failed"} : GitReturn(p, "exited", err)
  /\ UNCHANGED <<conveyorVars, loc>>

WorkTreeNext ==
  \E p \in Procs :
    \/ WorkTreeOpen(p)
    \/ WorkTreeLock(p)
    \/ WorkTreeRun(p)
    \/ WorkTreeDone(p)

WorkTreeSpec == WorkTreeInit /\ [][WorkTreeNext]_vars

\* C23: a process inside the work tree (patch with submodules, archive,
\* checksum) holds the git_work_tree lock; when its operation has returned,
\* with or without error, it does not hold the lock; createPatch for a
\* commit without .gitmodules never enters the work tree.
C23_WorkTreeUnderLock ==
  /\ \A p \in fs.users : locks[WorkTreeLockName].holder = p
  /\ \A p \in Procs :
       /\ pc[p] = "exited" => locks[WorkTreeLockName].holder # p
       /\ loc[p].op = "createPatch" /\ ~loc[p].hasSubmodules => ~loc[p].touched
       /\ loc[p].op # "createPatch" /\ pc[p] = "exited" /\ result[p] = NoError
            => loc[p].touched

\* One process archives inside the work tree while the other, which wants
\* to compute a checksum, waits for the lock.
C23_Witness ==
  /\ fs.users = {"p1"}
  /\ loc["p1"].op = "createArchive" /\ ~loc["p1"].hasSubmodules
  /\ pc["p2"] = "lock" /\ loc["p2"].op = "checksum"

(***************************************************************************)
(* Base.checksum on a prepared work tree.  Paths, modes, contents and link *)
(* targets are strings of bytes.                                           *)
(***************************************************************************)

\* The bytes that occur, in byte order.
Alphabet ==
  <<"*", "/", "0", "1", "2", "3", "4", "5", "6", "7", "a", "b", "c", "d", "f", "l", "x">>

Ord(ch) == CHOOSE i \in 1..Len(Alphabet) : Alphabet[i] = ch

RECURSIVE Less(_, _)
\* s < t for Go strings: bytewise, a proper prefix first.
Less(s, t) ==
  IF s = <<>> THEN t # <<>>
  ELSE IF t = <<>> THEN FALSE
  ELSE IF Head(s) = Head(t) THEN Less(Tail(s), Tail(t))
  ELSE Ord(Head(s)) < Ord(Head(t))

RECURSIVE Insert(_, _)
Insert(x, sorted) ==
  IF sorted = <<>> THEN <<x>>
  ELSE IF Less(Head(sorted), x) THEN <<Head(sorted)>> \o Insert(x, Tail(sorted))
  ELSE <<x>> \o sorted

\* Faulty variant of SortStrings: the paths stay in the order of collection.
Unsorted(paths) == paths

RECURSIVE SortStrings(_)
\* sort.Strings(paths)
SortStrings(paths) ==
  IF paths = <<>> THEN <<>> ELSE Insert(Head(paths), SortStrings(Tail(paths)))

RECURSIVE Octal(_)
\* fmt.Sprintf("%o", mode)
Octal(n) ==
  IF n < 8 THEN <<Alphabet[n + 3]>> ELSE Append(Octal(n \div 8), Alphabet[(n % 8) + 3])

\* os.ModeSymlink, the type bit Lstat reports for a symbolic link; a regular
\* file has no type bits.
ModeSymlink == 134217728

\* stat.Mode() of a regular file or a symbolic link.
FileMode(node) == IF node.kind = "symlink" THEN ModeSymlink + node.perm ELSE node.perm

RegularFile(perm, content) == [kind |-> "file", perm |-> perm, data |-> content]

Symlink(target) == [kind |-> "symlink", perm |-> 511, data |-> target]

Directory == [kind |-> "dir", perm |-> 493, data |-> <<>>]

\* The work trees: path -> node.  The file a (mode 0644 or 0755), the file
\* or link b, the directory d with the file d/f and the link d/l.
WorkTrees ==
  { ta @@ tb @@ td :
      ta \in { <<>> } \cup
             { <<"a">> :> RegularFile(perm, content) :
                 perm \in {420, 493},
                 content \in { <<>>, <<"b", "6", "4", "4", "c">> } },
      tb \in { <<>>, <<"b">> :> RegularFile(420, <<"c">>), <<"b">> :> Symlink(<<"a">>) },
      td \in { <<>> } \cup
             { (<<"d">> :> Directory) @@ tf @@ tl :
                 tf \in { <<>>, <<"d", "/", "f">> :> RegularFile(420, <<"c">>) },
                 tl \in { <<>>, <<"d", "/", "l">> :> Symlink(<<"a">>) } } }

\* The path patterns of a call.
PathPatterns ==
  { <<"a">>, <<"b">>, <<"d">>, <<"*">>, <<"d", "/", "*">>, <<"x">> }

\* The longest list of patterns of a call.
MaxPatterns == 2

RECURSIVE GlobMatch(_, _)
\* doublestar.Match for patterns of bytes and `*`, which stands for any run
\* of bytes other than the separator.
GlobMatch(pattern, path) ==
  IF pattern = <<>> THEN path = <<>>
  ELSE IF Head(pattern) = "*"
       THEN \E k \in 0..Len(path) :
              /\ \A j \in 1..k : path[j] # "/"
              /\ GlobMatch(Tail(pattern), SubSeq(path, k + 1, Len(path)))
       ELSE /\ path # <<>>
            /\ Head(path) = Head(pattern)
            /\ GlobMatch(Tail(pattern), Tail(path))

RECURSIVE SeqOfSet(_)
\* The paths of a set in the order the file system lists them.
SeqOfSet(S) ==
  IF S = {} THEN <<>>
  ELSE LET x == CHOOSE y \in S : \A z \in S \ {y} : Less(y, z)
       IN  <<x>> \o SeqOfSet(S \ {x})

\* doublestar.Glob(fullPathPattern): the entries of the work tree the
\* pattern matches.
Glob(tree, pattern) ==
  SeqOfSet({ path \in DOMAIN tree : GlobMatch(pattern, path) })

\* path lies below the directory dir.
Below(dir, path) ==
  /\ Len(path) > Len(dir) + 1
  /\ SubSeq(path, 1, Len(dir) + 1) = Append(dir, "/")

\* getFilesByPattern, the callback of filepath.Walk: the walked entry is
\* appended when info is a regular file or when stat, the entry the pattern
\* matched, is a symbolic link.
WalkAppends(tree, stat, info) == info.kind = "file" \/ stat.kind = "symlink"

\* filepath.Walk(fullPath, ...) of getFilesByPattern: the paths appended
\* while walking the matched directory.
WalkDir(tree, dir) ==
  SelectSeq(SeqOfSet({ path \in DOMAIN tree : path = dir \/ Below(dir, path) }),
            LAMBDA path : WalkAppends(tree, tree[dir], tree[path]))

RECURSIVE ExpandMatches(_, _)
\* getFilesByPattern, the loop over the matches: a regular file or a link is
\* appended, a directory is walked.
ExpandMatches(tree, matches) ==
  IF matches = <<>> THEN <<>>
  ELSE LET fullPath == Head(matches)
           stat == tree[fullPath]
       IN  (IF stat.kind \in {"file", "symlink"} THEN <<fullPath>>
            ELSE WalkDir(tree, fullPath))
           \o ExpandMatches(tree, Tail(matches))

getFilesByPattern(tree, pathPattern) == ExpandMatches(tree, Glob(tree, pathPattern))

RECURSIVE CollectPaths(_, _)
\* Base.checksum, the loop over opts.Paths: the matched paths of all
\* patterns, and the patterns without a match.
CollectPaths(tree, patterns) ==
  IF patterns = <<>> THEN [paths |-> <<>>, noMatchPaths |-> <<>>]
  ELSE LET res == getFilesByPattern(tree, Head(patterns))
           rest == CollectPaths(tree, Tail(patterns))
       IN  [paths |-> res \o rest.paths,
            noMatchPaths |-> (IF Len(res) = 0 THEN <<Head(patterns)>> ELSE <<>>)
                             \o rest.noMatchPaths]

\* true_git.PathFilter.IsFilePathValid with the exclude paths `exclude`.
IsFilePathValid(exclude, path) == path \notin exclude

\* What the hash loop writes for one path: the path, the mode in octal, the
\* content of a regular file or the target of a link.
HashedBytes(tree, path) == path \o Octal(FileMode(tree[path])) \o tree[path].data

RECURSIVE HashStream(_, _, _)
\* Base.checksum, the loop over the sorted paths: the bytes written to the
\* hash, paths the filter rejects being skipped.
HashStream(tree, paths, exclude) ==
  IF paths = <<>> THEN <<>>
  ELSE (IF IsFilePathValid(exclude, Head(paths))
        THEN HashedBytes(tree, Head(paths)) ELSE <<>>)
       \o HashStream(tree, Tail(paths), exclude)

\* A call of Base.checksum, the work tree prepared.
ChecksumInit ==
  /\ NoConveyor
  /\ locks = Lock([n \in GitLockNames |-> FreeLock], "p1", WorkTreeLockName)
  /\ fs = [NoFiles EXCEPT !.cloneExists = TRUE, !.originUrl = RemoteUrl, !.users = {"p1"}]
  /\ pc = [p \in Procs |-> IF p = "p1" THEN "collect" ELSE "exited"]
  /\ loc \in { [p \in Procs |->
                  [tree |-> tr, patterns |-> ps, exclude |-> ex,
                   paths |-> <<>>, noMatchPaths |-> <<>>, stream |-> <<>>]] :
                 tr \in WorkTrees, ps \in SeqsUpTo(PathPatterns, MaxPatterns),
                 ex \in { {}, {<<"b">>} } }
  /\ result = [p \in Procs |-> NoError]

\* Base.checksum: the loop over opts.Paths.
ChecksumCollect(p) ==
  /\ pc[p] = "collect"
  /\ LET c == CollectPaths(loc[p].tree, loc[p].patterns)
     IN  loc' = [loc EXCEPT ![p].paths = c.paths, ![p].noMatchPaths = c.noMatchPaths]
  /\ GitReturn(p, "sort", NoError)
  /\ UNCHANGED <<conveyorVars, locks, fs>>

\* Base.checksum: sort.Strings(paths).
ChecksumSort(p) ==
  /\ pc[p] = "sort"
  /\ loc' = [loc EXCEPT ![p].paths = SortStrings(@)]
  /\ GitReturn(p, "hash", NoError)
  /\ UNCHANGED <<conveyorVars, locks, fs>>

\* Base.checksum: the hash loop; the closure returns, the lock is released
\* and the checksum is returned.
ChecksumHash(p) ==
  /\ pc[p] = "hash"
  /\ loc' = [loc EXCEPT ![p].stream = HashStream(loc[p].tree, loc[p].paths, loc[p].exclude)]
  /\ locks' = WithLockReturn(locks, p, WorkTreeLockName)
  /\ fs' = [fs EXCEPT !.users = @ \ {p}]
  /\ GitReturn(p, "returned", NoError)
  /\ UNCHANGED conveyorVars

ChecksumNext ==
  \E p \in Procs :
    \/ ChecksumCollect(p)
    \/ ChecksumSort(p)
    \/ ChecksumHash(p)

ChecksumSpec == ChecksumInit /\ [][ChecksumNext]_vars

\* The orderings of a list.
Orderings(ps) ==
  { [i \in 1..Len(ps) |-> ps[f[i]]] :
      f \in { g \in [1..Len(ps) -> 1..Len(ps)] :
                \A i, j \in 1..Len(ps) : g[i] = g[j] => i = j } }

\* The bytes a call of checksum hashes for the patterns in the order qs.
StreamFor(l, qs) ==
  HashStream(l.tree, SortStrings(CollectPaths(l.tree, qs).paths), l.exclude)

\* C24: for every ordering of the call's patterns, applied to the same
\* work tree and path filter, the hashed bytes, and so the digest, are those
\* of the call.
C24_PatternOrderIrrelevant ==
  \A p \in Procs :
    pc[p] = "returned" =>
      \A qs \in Orderings(loc[p].patterns) :
        /\ StreamFor(loc[p], qs) = loc[p].stream
        /\ Sha256Hash(StreamFor(loc[p], qs)) = Sha256Hash(loc[p].stream)

\* A call with two patterns that matched different files, given against
\* the order of the paths.
C24_Witness ==
  /\ pc["p1"] = "returned"
  /\ Len(loc["p1"].patterns) = 2
  /\ loc["p1"].noMatchPaths = <<>>
  /\ CollectPaths(loc["p1"].tree, loc["p1"].patterns).paths # loc["p1"].paths
  /\ loc["p1"].stream # <<>>

RECURSIVE FileTriples(_, _, _)
\* The files a call hashes: (path, mode, content or link target) of the
\* sorted, filter-accepted paths.
FileTriples(tree, paths, exclude) ==
  IF paths = <<>> THEN <<>>
  ELSE (IF IsFilePathValid(exclude, Head(paths))
        THEN << <<Head(paths), FileMode(tree[Head(paths)]), tree[Head(paths)].data>> >>
        ELSE <<>>)
       \o FileTriples(tree, Tail(paths), exclude)

\* The files a call with the locals l hashes on the work tree `tree`.
FilesFor(l, tree) ==
  FileTriples(tree, SortStrings(CollectPaths(tree, l.patterns).paths), l.exclude)

\* C25: a work tree whose matched, filter-accepted files differ from the
\* call's in a path, a mode, a content or a link target gives other bytes
\* to the hash: the hashed bytes determine the list of files.
C25_StreamDeterminesFiles ==
  \A p \in Procs :
    pc[p] = "returned" =>
      \A other \in WorkTrees :
        FilesFor(loc[p], other) # FilesFor(loc[p], loc[p].tree)
          => StreamFor([loc[p] EXCEPT !.tree = other], loc[p].patterns) # loc[p].stream

\* The elements of a sequence.
Range(s) == { s[i] : i \in 1..Len(s) }

\* What a regular file or a link contributes to the digest.
Contribution(tree, path) == <<path, FileMode(tree[path]), tree[path].data>>

\* The directories of the work tree the call's patterns match.
MatchedDirs(l) ==
  { dir \in DOMAIN l.tree :
      /\ l.tree[dir].kind = "dir"
      /\ \E i \in 1..Len(l.patterns) : GlobMatch(l.patterns[i], dir) }

\* C26: every regular file and every link below a directory that a pattern
\* matched contributes its path, mode and content or target to the digest
\* (unless the path filter rejects it), as a file or link that a pattern
\* matched directly does.
C26_DirectoriesExpand ==
  \A p \in Procs :
    pc[p] = "returned" =>
      LET l == loc[p]
          hashed == Range(FilesFor(l, l.tree))
      IN  /\ \A path \in DOMAIN l.tree :
               /\ l.tree[path].kind \in {"file", "symlink"}
               /\ IsFilePathValid(l.exclude, path)
               /\ \/ \E i \in 1..Len(l.patterns) : GlobMatch(l.patterns[i], path)
                  \/ \E dir \in MatchedDirs(l) : Below(dir, path)
               => Contribution(l.tree, path) \in hashed
          /\ l.stream = HashStream(l.tree, l.paths, l.exclude)

\* The regular files and links of the work tree that the pattern selects:
\* those it matches and those below a directory it matches.
FilesOfPattern(tree, pattern) ==
  { path \in DOMAIN tree :
      /\ tree[path].kind \in {"file", "symlink"}
      /\ \/ GlobMatch(pattern, path)
         \/ \E dir \in DOMAIN tree :
              tree[dir].kind = "dir" /\ GlobMatch(pattern, dir) /\ Below(dir, path) }

\* C27: NoMatchPaths lists, in input order, exactly the patterns that
\* matched no file of the work tree, and such a pattern does not make
\* Checksum fail.
C27_NoMatchPathsExact ==
  \A p \in Procs :
    pc[p] = "returned" =>
      /\ loc[p].noMatchPaths =
           SelectSeq(loc[p].patterns,
                     LAMBDA pattern : FilesOfPattern(loc[p].tree, pattern) = {})
      /\ result[p] = NoError

(***************************************************************************)
(* The git facade's operations when a call they make fails.                *)
(***************************************************************************)

FacadeOps ==
  {"findCommitIdByMessage", "tagsList", "remoteBranchesList", "isCommitExists",
   "createPatch", "createArchive", "checksum"}

\* The fallible calls an operation makes on the repository and the files,
\* in the order of the code.
FacadeCalls(op) ==
  CASE op = "findCommitIdByMessage" ->
         <<"git.PlainOpen", "newHash", "CommitObject", "regexp.Compile", "ForEach">>
    [] op = "tagsList" -> <<"git.PlainOpen", "TagObjects", "ForEach">>
    [] op = "remoteBranchesList" -> <<"git.PlainOpen", "References", "ForEach">>
    [] op = "isCommitExists" -> <<"git.PlainOpen", "newHash", "CommitObject">>
    [] op = "createPatch" ->
         <<"git.PlainOpen", "newHash", "CommitObject", "newHash", "CommitObject",
           "commit.File", "os.OpenFile", "true_git.Patch", "Close">>
    [] op = "createArchive" ->
         <<"git.PlainOpen", "newHash", "CommitObject", "commit.File",
           "os.OpenFile", "true_git.Archive">>
    [] op = "checksum" ->
         <<"git.PlainOpen", "newHash", "CommitObject", "commit.File",
           "true_git.PrepareWorkTree", "getFilesByPattern", "os.Lstat",
           "os.Open", "io.Copy", "Close", "os.Readlink">>

\* Whether the operation tests the error the call returns: the error of
\* ForEach is assigned to err and never looked at.
ErrTested(op, call) == call # "ForEach"

\* A call of a facade operation in which the failAt-th fallible call fails
\* (none fails when failAt = 0).
FacadeInit ==
  /\ NoConveyor
  /\ locks = [n \in GitLockNames |-> FreeLock]
  /\ fs = [NoFiles EXCEPT !.cloneExists = TRUE, !.originUrl = RemoteUrl]
  /\ pc = [p \in Procs |-> IF p = "p1" THEN "facade" ELSE "exited"]
  /\ loc \in UNION { { [p \in Procs |-> [op |-> o, failAt |-> f, k |-> 1, failed |-> FALSE]] :
                         f \in 0..Len(FacadeCalls(o)) } : o \in FacadeOps }
  /\ result = [p \in Procs |-> NoError]

\* The operation makes its next call: a failure it tests for is returned,
\* any other outcome lets it go on.
FacadeCall(p) ==
  /\ pc[p] = "facade"
  /\ loc[p].k <= Len(FacadeCalls(loc[p].op))
  /\ LET l == loc[p]
         call == FacadeCalls(l.op)[l.k]
         fails == l.failAt = l.k
     IN  /\ loc' = [loc EXCEPT ![p].k = @ + 1, ![p].failed = @ \/ fails]
         /\ IF fails /\ ErrTested(l.op, call)
            THEN GitReturn(p, "returned", call)
            ELSE UNCHANGED <<pc, result>>
  /\ UNCHANGED <<conveyorVars, locks, fs>>

\* The operation returns its normal result.
FacadeReturn(p) ==
  /\ pc[p] = "facade"
  /\ loc[p].k > Len(FacadeCalls(loc[p].op))
  /\ GitReturn(p, "returned", NoError)
  /\ UNCHANGED <<conveyorVars, locks, loc, fs>>

FacadeNext ==
  \E p \in Procs :
    \/ FacadeCall(p)
    \/ FacadeReturn(p)

FacadeSpec == FacadeInit /\ [][FacadeNext]_vars

\* C28: an operation of the git facade in which a call on the repository or
\* on a file failed returns a non-nil error.
C28_NoFailureIgnored ==
  \A p \in Procs :
    pc[p] = "returned" /\ loc[p].failed => result[p] # NoError

(***************************************************************************)
(* config.AllRelativePaths.                                                *)
(***************************************************************************)

\* The path strings of a call: absolute, relative, empty.
PathStrings == { <<"/", "a">>, <<"a">>, <<"a", "/", "b">>, <<>> }

\* The longest list of paths of a call.
MaxPaths == 3

\* strings.HasPrefix(path, "/")
IsAbsolutePath(path) == path # <<>> /\ Head(path) = "/"

isRelativePath(path) == ~IsAbsolutePath(path)

\* A call of AllRelativePaths(paths).
PathsInit ==
  /\ NoConveyor
  /\ locks = [n \in LockNames |-> FreeLock]
  /\ fs = NoFiles
  /\ pc = [p \in Procs |-> IF p = "p1" THEN "AllRelativePaths" ELSE "exited"]
  /\ loc \in { [p \in Procs |-> [paths |-> ps, k |-> 1, ret |-> FALSE]] :
                 ps \in SeqsUpTo(PathStrings, MaxPaths) }
  /\ result = [p \in Procs |-> NoError]

\* AllRelativePaths: true for the empty list, else the call of
\* AllAbsolutePaths whose result it negates.
AllRelativePaths(p) ==
  /\ pc[p] = "AllRelativePaths"
  /\ IF Len(loc[p].paths) = 0
     THEN /\ loc' = [loc EXCEPT ![p].ret = TRUE]
          /\ pc' = [pc EXCEPT ![p] = "returned"]
     ELSE /\ pc' = [pc EXCEPT ![p] = "AllAbsolutePaths"]
          /\ UNCHANGED loc
  /\ UNCHANGED <<conveyorVars, locks, fs, result>>

\* AllAbsolutePaths: one turn of the loop, which returns false at the first
\* relative path, or the return of true after it; AllRelativePaths returns
\* the negation.
AllAbsolutePaths(p) ==
  /\ pc[p] = "AllAbsolutePaths"
  /\ LET l == loc[p]
     IN  IF l.k > Len(l.paths)
         THEN /\ loc' = [loc EXCEPT ![p].ret = ~TRUE]
              /\ pc' = [pc EXCEPT ![p] = "returned"]
         ELSE IF isRelativePath(l.paths[l.k])
         THEN /\ loc' = [loc EXCEPT ![p].ret = ~FALSE]
              /\ pc' = [pc EXCEPT ![p] = "returned"]
         ELSE /\ loc' = [loc EXCEPT ![p].k = @ + 1]
              /\ UNCHANGED pc
  /\ UNCHANGED <<conveyorVars, locks, fs, result>>

PathsNext ==
  \E p \in Procs :
    \/ AllRelativePaths(p)
    \/ AllAbsolutePaths(p)

PathsSpec == PathsInit /\ [][PathsNext]_vars

\* C30: AllRelativePaths(paths) is true exactly when no element of paths
\* starts with "/"; so it is true for the empty list and false when one
\* element is absolute.
C30_AllRelativeExact ==
  \A p \in Procs :
    pc[p] = "returned" =>
      (loc[p].ret <=>
         \A i \in 1..Len(loc[p].paths) :
           loc[p].paths[i] = <<>> \/ Head(loc[p].paths[i]) # "/")

\* C38: the checksum depends only on the set of files the patterns match:
\* the bytes hashed by a call, and so its digest, are those hashed when
\* every matched file is taken once, however many patterns matched it.
C38_MatchedSetOnly ==
  \A p \in Procs :
    pc[p] = "returned" =>
      LET l == loc[p]
          once == SortStrings(SeqOfSet(Range(CollectPaths(l.tree, l.patterns).paths)))
      IN  Sha256Hash(l.stream) = Sha256Hash(HashStream(l.tree, once, l.exclude))

(***************************************************************************)
(* calculateImageSignatures on two configurations that differ in the      *)
(* dependencies of one stage.                                             *)
(***************************************************************************)

\* The largest number of stages of an image.
MaxStages == 3

\* The stages an image can be made of: a stage that is no git stage, a git
\* stage with a git path, a git stage without git paths (empty), each with
\* one of two dependency strings.
StageKinds ==
  { Stage("s", g[1], d, g[2]) :
      g \in { <<FALSE, <<>>>>, <<TRUE, <<"repo">>>>, <<TRUE, <<>>>> },
      d \in {"d1", "d2"} }

\* Two configurations of one image: p1 signs the stage list ss, p2 the same
\* list with other dependencies in its k-th stage, a stage that is not empty.
SigInit ==
  /\ NoConveyor
  /\ locks = [n \in LockNames |-> FreeLock]
  /\ fs = NoFiles
  /\ pc = [p \in Procs |-> "calculateImageSignatures"]
  /\ loc \in { [p \in Procs |->
                  [stages |-> IF p = "p1" THEN ss ELSE [ss EXCEPT ![k].deps = d],
                   config |-> ss, changed |-> k, i |-> 1, prevSig |-> <<>>,
                   newStagesList |-> <<>>]] :
               ss \in SeqsUpTo(StageKinds, MaxStages) \ {<<>>},
               k \in 1..MaxStages, d \in {"d1", "d2"} }
  /\ \A p \in Procs :
       /\ loc[p].changed <= Len(loc[p].stages)
       /\ ~IsEmpty(loc[p].stages[loc[p].changed], NoImage)
  /\ loc["p1"].stages # loc["p2"].stages
  /\ result = [p \in Procs |-> NoError]

\* SignaturesPhase.calculateImageSignatures: one turn of the loop over
\* image.GetStages(), or image.SetStages(newStagesList) after the loop.
calculateImageSignatures(p) ==
  /\ pc[p] = "calculateImageSignatures"
  /\ LET l == loc[p] IN
     IF l.i > Len(l.stages)
     THEN /\ pc' = [pc EXCEPT ![p] = "returned"]
          /\ loc' = [loc EXCEPT ![p].stages = l.newStagesList]
     ELSE /\ pc' = pc
          /\ IF IsEmpty(l.stages[l.i], NoImage)
             THEN loc' = [loc EXCEPT ![p].i = @ + 1]
             ELSE LET stageSig == StageSig(l.stages[l.i].deps, l.prevSig)
                  IN  loc' = [loc EXCEPT
                        ![p].i = @ + 1,
                        ![p].prevSig = stageSig,
                        ![p].newStagesList =
                           Append(@, [l.stages[l.i] EXCEPT !.signature = stageSig])]
  /\ UNCHANGED <<conveyorVars, locks, fs, result>>

SigNext == \E p \in Procs : calculateImageSignatures(p)

SigSpec == SigInit /\ [][SigNext]_vars

\* The signatures of a signed stage list, in order.
SignaturesOf(ss) == [m \in 1..Len(ss) |-> ss[m].signature]

\* How many stages of ss before its k-th stage are not empty.
NonEmptyBefore(ss, k) ==
  Cardinality({ m \in 1..(k - 1) : ~(ss[m].isGit /\ ss[m].gitPaths = <<>>) })

\* C31: when the dependencies of the k-th non-empty stage of an image are
\* changed, the signature of that stage and of every later non-empty stage
\* of the image changes and the signatures of the earlier stages stay.
C31_DependenciesChangeLaterSignatures ==
  (\A p \in Procs : pc[p] = "returned") =>
    LET a == SignaturesOf(loc["p1"].stages)
        b == SignaturesOf(loc["p2"].stages)
        j == NonEmptyBefore(loc["p1"].config, loc["p1"].changed) + 1
    IN  /\ Len(a) = Len(b)
        /\ j <= Len(a)
        /\ \A m \in 1..Len(a) : (m < j) <=> (a[m] = b[m])

\* Both lists are signed; the changed stage has a signed stage before it and
\* one after it.
C31_Witness ==
  /\ \A p \in Procs : pc[p] = "returned"
  /\ Len(loc["p1"].stages) = 3
  /\ loc["p1"].changed = 2
  /\ loc["p2"].stages[2].deps # loc["p1"].stages[2].deps
  /\ loc["p1"].stages[1].signature = loc["p2"].stages[1].signature
  /\ loc["p1"].stages[3].signature # loc["p2"].stages[3].signature

====
